---- MODULE Spec2Model ----
(***************************************************************************)
(* Order lifecycle of the SevenX7 grocery marketplace front end.           *)
(*                                                                         *)
(* The module holds the customer session (cart, checkout, on-device order  *)
(* storage, the MyOrders timer simulator and its rendering) and the        *)
(* store-owner console with the backend orders table.  Specifications:     *)
(*   SpecShop     a demo customer shops, checks out and follows the order; *)
(*   SpecHistory  a demo customer whose device already holds orders;       *)
(*   SpecRender   MyOrders renders one order of any shape;                 *)
(*   SpecOwner    the store-owner console of the demo account;             *)
(*   SpecLive     two consoles of one live store account over the backend  *)
(*                orders table;                                            *)
(*   SpecPickup   SpecLive over a table of pickup orders;                  *)
(*   SpecCart     a demo customer with two nearby stores;                  *)
(*   SpecFeed     a registered customer's order history next to a live     *)
(*                store console;                                           *)
(*   SpecLocal    the three places where an order's status changes;        *)
(*   SpecProfile  one live console: orders tab and profile form;           *)
(*   SpecInventory  the inventory tab of a demo or a live console;         *)
(*   SpecBrands   the brand cards of an inventory item;                    *)
(*   SpecCheckout, SpecCheckoutFair  a registered customer checks out next *)
(*                to the live console of the store, without and with the   *)
(*                scheduling of the console's fetches;                     *)
(*   SpecLoading  the loading flags of the store console and of MyOrders;  *)
(*   SpecSignIn   the sign-in screen (OTPVerification) up to the console;  *)
(*   SpecEncoding the status encodings between backend and views.          *)
(***************************************************************************)
EXTENDS Integers, Sequences, FiniteSets, TLC

(***************************************************************************)
(* Bounds of the model.                                                    *)
(***************************************************************************)
MaxStored == 2
MaxCheckouts == 1
MaxQty == 2
MaxAge == 4
MaxTableOrders == 1
MaxInFlight == 1
MaxEvents == 2
MaxFeedOrders == 2
MaxStock == 1

(***************************************************************************)
(* Types (types.ts).                                                       *)
(***************************************************************************)
OrderStatus ==
    {"Pending", "Preparing", "On the way", "Ready", "Delivered", "Picked Up",
     "Cancelled", "Placed", "Accepted", "Rejected"}

OrderMode == {"DELIVERY", "PICKUP"}

DeliveryType == {"INSTANT", "SCHEDULED"}

PaymentStatus == {"PAID", "PENDING"}

(***************************************************************************)
(* MyOrders.getStatusInfo: the step list of a mode, Array.indexOf and the  *)
(* progress fraction.  The percentage ((index / (length - 1)) * 100) is    *)
(* kept as the exact rational num / den.                                   *)
(***************************************************************************)
deliverySteps == <<"Pending", "Preparing", "On the way", "Delivered">>

pickupSteps == <<"Pending", "Preparing", "Ready", "Picked Up">>

StepsOf(mode) == IF mode = "DELIVERY" THEN deliverySteps ELSE pickupSteps

\* Array.prototype.indexOf: zero-based position of the first match, -1 if none.
indexOf(steps, status) ==
    IF \E i \in 1..Len(steps) : steps[i] = status
    THEN (CHOOSE i \in 1..Len(steps) :
            /\ steps[i] = status
            /\ \A j \in 1..(i - 1) : steps[j] # status) - 1
    ELSE -1

\* Variant: the fraction is taken over the number of steps.
getStatusInfo_OverLength(status, mode) ==
    LET steps == StepsOf(mode)
        currentIndex == indexOf(steps, status)
    IN [steps |-> steps,
        currentIndex |-> currentIndex,
        progressNum |-> currentIndex * 100,
        progressDen |-> Len(steps)]

getStatusInfo(status, mode) ==
    LET steps == StepsOf(mode)
        currentIndex == indexOf(steps, status)
    IN [steps |-> steps,
        currentIndex |-> currentIndex,
        progressNum |-> currentIndex * 100,
        progressDen |-> Len(steps) - 1]

(***************************************************************************)
(* State.                                                                  *)
(*                                                                         *)
(* Customer session (CustomerApp, MyOrders), demo account:                 *)
(*   stores, activeView, selectedStore, storeProducts, cart, showPayment,  *)
(*   pendingOrderDetails   useState cells of CustomerApp;                  *)
(*   inventoryChannels     the stores for which a channel opened by        *)
(*                         subscribeToStoreInventory is subscribed;        *)
(*   lsOrders              localStorage['grocesphere_orders'];             *)
(*   myOrders              useState cell `orders` of MyOrders;             *)
(*   rendered              what the last render of MyOrders computed with  *)
(*                         getStatusInfo, one entry per order;             *)
(*   nextId                stands for Date.now() in `ord-${Date.now()}`;   *)
(*   age                   history variable: simulator ticks applied to    *)
(*                         each order since it entered the list.           *)
(***************************************************************************)
VARIABLES stores, activeView, selectedStore, storeProducts, cart, showPayment,
          pendingOrderDetails, lsOrders, myOrders, rendered, nextId, age,
          inventoryChannels

simVars == <<stores, activeView, selectedStore, storeProducts, cart, showPayment,
             pendingOrderDetails, lsOrders, myOrders, rendered, nextId, age,
             inventoryChannels>>

(***************************************************************************)
(* Store-owner console (StoreApp) and the backend orders table.            *)
(*                                                                         *)
(*   userId            user.id of the signed-in partner;                   *)
(*   consoles          the browser sessions in which StoreApp is mounted;  *)
(*   ordersTable       rows of the backend `orders` table of the store,    *)
(*                     newest first;                                       *)
(*   demoProfile       localStorage['demo_store_profile'];                 *)
(* and, one per console,                                                   *)
(*   myStore, activeTab, orders, profileForm, isEditingProfile             *)
(*                     the useState cells of StoreApp;                     *)
(*   refetch           a getIncomingOrders call is due (mount, realtime    *)
(*                     event or completed status update);                 *)
(*   replies           results of getIncomingOrders not yet handed to      *)
(*                     setOrders;                                          *)
(*   alerted           the last status or profile action ended in an alert;*)
(*   callbackFetches   the getIncomingOrders calls issued by realtime      *)
(*                     callbacks: due / inFlight for the channel the       *)
(*                     data-sync effect holds, staleDue / staleInFlight    *)
(*                     for channels its cleanup has removed;               *)
(*   backendCalls      the operations the consoles have asked of the       *)
(*                     backend (supabase) so far;                          *)
(*   inventory         the useState cell `inventory`, one per console;     *)
(*   inventoryTable    rows of the backend `inventory` table of the store; *)
(*   demoInventory     localStorage['demo_store_inventory'] (<<>>: none    *)
(*                     saved).                                             *)
(***************************************************************************)
VARIABLES userId, consoles, ordersTable, demoProfile, myStore, activeTab, orders,
          profileForm, isEditingProfile, refetch, replies, alerted, callbackFetches,
          backendCalls, inventory, inventoryTable, demoInventory

stockVars == <<inventory, inventoryTable, demoInventory>>

consoleVars == <<userId, consoles, ordersTable, demoProfile, myStore, activeTab,
                 orders, profileForm, isEditingProfile, refetch, replies, alerted,
                 callbackFetches, backendCalls, stockVars>>

(***************************************************************************)
(* Order history of a registered customer (MyOrders, live branch).         *)
(*                                                                         *)
(*   customerId        the userId prop MyOrders is given;                  *)
(*   subscription      "active" while the subscribeToUserOrders channel of *)
(*                     the mounted MyOrders is open, else "none";          *)
(*   events            changed rows announced on that channel and not yet  *)
(*                     handed to the callback, oldest first;               *)
(*   userReplies       results of getUserOrders not yet handed to          *)
(*                     setOrders.                                          *)
(***************************************************************************)
VARIABLES customerId, subscription, events, userReplies

feedVars == <<customerId, subscription, events, userReplies>>

(***************************************************************************)
(* Loading flags and the sign-in component.                                *)
(*                                                                         *)
(*   storeScreen    StoreApp's mount effect: user.id, whether the effect   *)
(*                  has run, the loading flag, the getMyStore call and     *)
(*                  whether a store record was set;                        *)
(*   historyScreen  MyOrders' mount effect: userId, whether the effect has *)
(*                  run, the loading flag, the getUserOrders call and      *)
(*                  whether a list was set;                                *)
(*   auth           the Auth component: authMode, formData.otp, loading,   *)
(*                  statusMsg, errorMsg, the verification timer with the   *)
(*                  code its closure holds, the outstanding userService    *)
(*                  call, and whether onLoginSuccess was called.           *)
(*                                                                         *)
(* A call is "pending" when the backend will answer it and "never" when    *)
(* its promise is never settled.                                           *)
(***************************************************************************)
VARIABLES storeScreen, historyScreen, auth

viewVars == <<storeScreen, historyScreen, auth>>

vars == <<simVars, consoleVars, feedVars, viewVars>>

NoUser == ""

\* StoreApp: useState(true) for loading, the effect not yet run.
StoreScreenInit(user) ==
    [user |-> user, ran |-> FALSE, loading |-> TRUE, call |-> "none", store |-> FALSE]

\* MyOrders: useState(false) for loading, the effect not yet run.
HistoryScreenInit(user) ==
    [userId |-> user, ran |-> FALSE, loading |-> FALSE, call |-> "none", listed |-> FALSE]

\* Auth as it is mounted: the login form.
AuthInit ==
    [authMode |-> "LOGIN", otp |-> "", loading |-> FALSE, statusMsg |-> "",
     errorMsg |-> "", timer |-> "none", call |-> "none", loggedIn |-> FALSE]

\* None of the three is under study: each stays as it is mounted.
ViewIdle ==
    /\ storeScreen = StoreScreenInit(NoUser)
    /\ historyScreen = HistoryScreenInit(NoUser)
    /\ auth = AuthInit


(***************************************************************************)
(* Accounts and the reading of backend rows.                               *)
(***************************************************************************)
DemoUser == "demo-user"

mapDbStatusToAppStatus(db) ==
    CASE db = "placed" -> "Placed"
      [] db = "accepted" -> "Accepted"
      [] db = "packing" -> "Preparing"
      [] db = "ready" -> "Ready"
      [] db = "on_way" -> "On the way"
      [] db = "delivered" -> "Delivered"
      [] db = "picked_up" -> "Picked Up"
      [] db = "cancelled" -> "Cancelled"
      [] db = "rejected" -> "Rejected"
      [] OTHER -> "Pending"

\* The order list getUserOrders returns for the customer's rows.
getUserOrders(table) ==
    [i \in 1..Len(table) |->
        [id |-> table[i].id,
         items |-> table[i].items,
         total |-> table[i].total_amount,
         status |-> mapDbStatusToAppStatus(table[i].status),
         paymentStatus |-> "PAID",
         mode |-> IF table[i].type = "" THEN "DELIVERY" ELSE table[i].type,
         deliveryType |-> "INSTANT"]]

\* No registered customer has the order history open.
FeedIdle ==
    /\ customerId = DemoUser
    /\ subscription = "none"
    /\ events = <<>>
    /\ userReplies = {}

Products == {"1", "2"}

Stores == {"s1", "s2"}

Prices == {30, 60}

NoStore == "none"

NoDetails == [deliveryType |-> "none"]

RECURSIVE SumSeq(_)
SumSeq(s) == IF s = <<>> THEN 0 ELSE Head(s) + SumSeq(Tail(s))

\* cart.reduce((sum, item) => sum + (item.price * item.quantity), 0)
cartTotal(items) ==
    SumSeq([i \in 1..Len(items) |-> items[i].price * items[i].quantity])

\* Array.prototype.findIndex, zero-based, -1 when nothing matches.
cartFindIndex(c, pid, brand) ==
    IF \E i \in 1..Len(c) : c[i].originalProductId = pid /\ c[i].selectedBrand = brand
    THEN (CHOOSE i \in 1..Len(c) :
            /\ c[i].originalProductId = pid /\ c[i].selectedBrand = brand
            /\ \A j \in 1..(i - 1) :
                 ~(c[j].originalProductId = pid /\ c[j].selectedBrand = brand)) - 1
    ELSE -1

(***************************************************************************)
(* MyOrders render: getStatusInfo is evaluated for every order of the      *)
(* list; the timeline that uses it is drawn unless the order is cancelled  *)
(* or awaits payment.  Nothing is computed for an empty list.              *)
(***************************************************************************)
RenderOrder(o) ==
    [id |-> o.id,
     info |-> getStatusInfo(o.status, o.mode),
     timeline |-> (o.status # "Cancelled" /\ o.paymentStatus # "PENDING")]

Render(os) == [i \in 1..Len(os) |-> RenderOrder(os[i])]

(***************************************************************************)
(* Orders of the demo customer.  The stored list is what an earlier        *)
(* session left in localStorage: any Order whose status belongs to the     *)
(* customer step list of its mode, or is Cancelled.                        *)
(***************************************************************************)
StoredItems ==
    <<[originalProductId |-> "1", selectedBrand |-> "Generic", price |-> 60,
       quantity |-> 2, storeId |-> "s1", storeName |-> "Fresh Mart"]>>

StoredShape ==
    {c \in [status : OrderStatus, mode : OrderMode, deliveryType : DeliveryType,
            paymentStatus : PaymentStatus] :
        \/ c.status = "Cancelled"
        \/ \E i \in 1..Len(StepsOf(c.mode)) : StepsOf(c.mode)[i] = c.status}

StoredOrder(i, c) ==
    [id |-> <<"stored", i>>, items |-> StoredItems, total |-> cartTotal(StoredItems),
     status |-> c.status, paymentStatus |-> c.paymentStatus, mode |-> c.mode,
     deliveryType |-> c.deliveryType]

\* ls is a stored list of at most max orders.
IsStoredList(ls, max) ==
    \E n \in 0..max : \E f \in [1..n -> StoredShape] :
        ls = [i \in 1..n |-> StoredOrder(i, f[i])]

OrderIds ==
    {<<"stored", i>> : i \in 1..MaxStored} \cup {<<"ord", n>> : n \in 1..MaxCheckouts}

\* The session after login: the home view, nothing selected, an empty cart.
\* `nearby` is the result of fetchLiveStores, `catalogues` the price lists the
\* backend may hold, `maxStored` the most orders the device already holds.
SessionInit(nearby, catalogues, maxStored) ==
    /\ stores = nearby
    /\ inventoryChannels = {}
    /\ activeView = "HOME"
    /\ selectedStore = NoStore
    /\ storeProducts \in catalogues
    /\ cart = <<>>
    /\ showPayment = FALSE
    /\ pendingOrderDetails = NoDetails
    /\ IsStoredList(lsOrders, maxStored)
    /\ myOrders = <<>>
    /\ rendered = <<>>
    /\ nextId = 1
    /\ age = [i \in OrderIds |-> 0]

(***************************************************************************)
(* CustomerApp: store selection, products, cart.                           *)
(***************************************************************************)
\* onSelectStore / store card click, then the products effect (lines 80-100).
SelectStore(s, products) ==
    /\ s \in stores
    /\ activeView = "HOME"
    /\ ~showPayment
    /\ selectedStore' = s
    /\ activeView' = "STORE"
    /\ storeProducts' = products
    /\ inventoryChannels' = inventoryChannels \cup {s}
    /\ UNCHANGED <<stores, cart, showPayment, pendingOrderDetails, lsOrders,
                   myOrders, rendered, nextId, age>>
    /\ UNCHANGED <<consoleVars, feedVars>>
    /\ UNCHANGED viewVars

\* subscribeToStoreInventory callback: the product list is fetched again.
InventoryChanged ==
    /\ selectedStore # NoStore
    /\ storeProducts' \in [Products -> Prices]
    /\ storeProducts' # storeProducts
    /\ UNCHANGED <<stores, inventoryChannels, activeView, selectedStore, cart,
                   showPayment, pendingOrderDetails,
                   lsOrders, myOrders, rendered, nextId, age>>
    /\ UNCHANGED <<consoleVars, feedVars>>
    /\ UNCHANGED viewVars

\* The display name of a nearby store.
StoreName(store) == IF store = "s1" THEN "Fresh Mart" ELSE "Daily Needs"

addToCartResult(c, pid, quantity, brandName, price, store) ==
    LET existingIdx == cartFindIndex(c, pid, brandName)
    IN IF existingIdx > -1
       THEN [c EXCEPT ![existingIdx + 1].quantity = @ + quantity]
       ELSE Append(c, [originalProductId |-> pid, selectedBrand |-> brandName,
                       price |-> price, quantity |-> quantity, storeId |-> store,
                       storeName |-> StoreName(store)])

\* onAdd={(p) => addToCart(p, 1, 'Generic', p.price)} of the product grid and
\* of the cart sheet.
addToCart(pid) ==
    /\ activeView \in {"STORE", "CART"}
    /\ ~showPayment
    /\ selectedStore # NoStore
    /\ cart' = addToCartResult(cart, pid, 1, "Generic", storeProducts[pid], selectedStore)
    /\ \A i \in 1..Len(cart') : cart'[i].quantity <= MaxQty
    /\ UNCHANGED <<stores, inventoryChannels, activeView, selectedStore, storeProducts, showPayment,
                   pendingOrderDetails, lsOrders, myOrders, rendered, nextId, age>>
    /\ UNCHANGED <<consoleVars, feedVars>>
    /\ UNCHANGED viewVars

Max0(n) == IF n < 0 THEN 0 ELSE n

updateQuantityResult(c, idx, delta) ==
    LET bumped == [c EXCEPT ![idx].quantity = Max0(@ + delta)]
        Positive(item) == item.quantity > 0
    IN SelectSeq(bumped, Positive)

updateQuantity(idx, delta) ==
    /\ activeView \in {"STORE", "CART"}
    /\ ~showPayment
    /\ idx \in 1..Len(cart)
    /\ cart[idx].quantity + delta <= MaxQty
    /\ cart' = updateQuantityResult(cart, idx, delta)
    /\ UNCHANGED <<stores, inventoryChannels, activeView, selectedStore, storeProducts, showPayment,
                   pendingOrderDetails, lsOrders, myOrders, rendered, nextId, age>>
    /\ UNCHANGED <<consoleVars, feedVars>>
    /\ UNCHANGED viewVars

(***************************************************************************)
(* Navigation.  MyOrders is mounted exactly while activeView = 'ORDERS';   *)
(* its mount effect (fetchOrders, demo branch) loads the stored list, and  *)
(* unmounting drops the component state.                                   *)
(***************************************************************************)
fetchOrdersDemo(ls) == ls

MountedOrders(view, ls, current) ==
    IF view = "ORDERS"
    THEN (IF activeView = "ORDERS" THEN current ELSE fetchOrdersDemo(ls))
    ELSE <<>>

\* Bottom navigation (hidden in the cart view), header logo and cart button,
\* and the cart sheet's close button.  MyOrders is mounted in the ORDERS view
\* only.  Mounted for the demo account it reads the device's list; mounted
\* for a registered customer it starts with an empty list, calls
\* getUserOrders (which answers or fails) and opens the channel.  Unmounting
\* closes the channel, and a reply still under way is dropped.
Navigate(v) ==
    /\ ~showPayment
    /\ v # activeView
    /\ \/ v \in {"HOME", "ORDERS", "PROFILE"} /\ activeView # "CART"
       \/ v = "HOME"
       \/ v = "CART"
    /\ activeView' = v
    /\ IF customerId = DemoUser
       THEN /\ myOrders' = MountedOrders(v, lsOrders, myOrders)
            /\ UNCHANGED feedVars
       ELSE /\ myOrders' = <<>>
            /\ subscription' = IF v = "ORDERS" THEN "active" ELSE "none"
            /\ events' = <<>>
            /\ userReplies' \in IF v = "ORDERS"
                                THEN {{getUserOrders(ordersTable)}, {}}
                                ELSE {{}}
            /\ UNCHANGED customerId
    /\ rendered' = Render(myOrders')
    /\ UNCHANGED <<stores, inventoryChannels, selectedStore, storeProducts, cart,
                   showPayment,
                   pendingOrderDetails, lsOrders, nextId, age>>
    /\ UNCHANGED consoleVars
    /\ UNCHANGED viewVars

(***************************************************************************)
(* Checkout.                                                               *)
(***************************************************************************)
\* CartDetails onProceedToPay.
handlePlaceOrder(deliveryType) ==
    /\ activeView = "CART"
    /\ ~showPayment
    /\ pendingOrderDetails' = [deliveryType |-> deliveryType]
    /\ showPayment' = TRUE
    /\ UNCHANGED <<stores, inventoryChannels, activeView, selectedStore, storeProducts, cart, lsOrders,
                   myOrders, rendered, nextId, age>>
    /\ UNCHANGED <<consoleVars, feedVars>>
    /\ UNCHANGED viewVars

\* Variant: closing the payment step also empties the cart.
PaymentCancel_ClearsCart ==
    /\ showPayment /\ pendingOrderDetails # NoDetails
    /\ showPayment' = FALSE
    /\ cart' = <<>>
    /\ UNCHANGED <<stores, inventoryChannels, activeView, selectedStore, storeProducts,
                   pendingOrderDetails, lsOrders, myOrders, rendered, nextId, age>>
    /\ UNCHANGED <<consoleVars, feedVars>>
    /\ UNCHANGED viewVars

\* PaymentGateway onCancel.
PaymentCancel ==
    /\ showPayment /\ pendingOrderDetails # NoDetails
    /\ showPayment' = FALSE
    /\ UNCHANGED <<stores, inventoryChannels, activeView, selectedStore, storeProducts, cart,
                   pendingOrderDetails, lsOrders, myOrders, rendered, nextId, age>>
    /\ UNCHANGED <<consoleVars, feedVars>>
    /\ UNCHANGED viewVars

\* Variant: the total adds unit prices and forgets the quantities.
newOrder_TotalOfUnitPrices(n, items, details, store) ==
    [id |-> <<"ord", n>>,
     items |-> items,
     total |-> SumSeq([i \in 1..Len(items) |-> items[i].price]),
     status |-> "Pending",
     paymentStatus |-> "PAID",
     mode |-> "DELIVERY",
     deliveryType |-> details.deliveryType,
     storeName |-> items[1].storeName,
     storeLocation |-> store]

newOrder(n, items, details, store) ==
    [id |-> <<"ord", n>>,
     items |-> items,
     total |-> cartTotal(items),
     status |-> "Pending",
     paymentStatus |-> "PAID",
     mode |-> "DELIVERY",
     deliveryType |-> details.deliveryType,
     storeName |-> items[1].storeName,
     storeLocation |-> store]

\* orderService.saveOrder for the demo account: the local fallback list.
saveOrder(ls, o) == Append(ls, o)

(***************************************************************************)
(* MyOrders demo simulator: the setInterval callback (lines 77-92).        *)
(***************************************************************************)
\* Variant: a placed order is sent out without being packed.
simulateOrder_SkipsPacking(o) ==
    IF o.deliveryType = "SCHEDULED" /\ o.paymentStatus = "PENDING" THEN o
    ELSE IF o.status = "Cancelled" \/ o.status = "Delivered" \/ o.status = "Picked Up"
    THEN o
    ELSE IF o.status = "Pending"
    THEN [o EXCEPT !.status = IF o.mode = "DELIVERY" THEN "On the way" ELSE "Ready"]
    ELSE IF o.status = "Preparing"
    THEN [o EXCEPT !.status = IF o.mode = "DELIVERY" THEN "On the way" ELSE "Ready"]
    ELSE IF o.status = "On the way" THEN [o EXCEPT !.status = "Delivered"]
    ELSE IF o.status = "Ready" THEN [o EXCEPT !.status = "Picked Up"]
    ELSE o

\* Variant: the fulfillment mode is not consulted after packing.
simulateOrder_IgnoresMode(o) ==
    IF o.deliveryType = "SCHEDULED" /\ o.paymentStatus = "PENDING" THEN o
    ELSE IF o.status = "Cancelled" \/ o.status = "Delivered" \/ o.status = "Picked Up"
    THEN o
    ELSE IF o.status = "Pending" THEN [o EXCEPT !.status = "Preparing"]
    ELSE IF o.status = "Preparing" THEN [o EXCEPT !.status = "On the way"]
    ELSE IF o.status = "On the way" THEN [o EXCEPT !.status = "Delivered"]
    ELSE IF o.status = "Ready" THEN [o EXCEPT !.status = "Picked Up"]
    ELSE o

\* Variant: scheduled orders awaiting payment are simulated like the others.
simulateOrder_NoPaymentHold(o) ==
    IF o.status = "Cancelled" \/ o.status = "Delivered" \/ o.status = "Picked Up"
    THEN o
    ELSE IF o.status = "Pending" THEN [o EXCEPT !.status = "Preparing"]
    ELSE IF o.status = "Preparing"
    THEN [o EXCEPT !.status = IF o.mode = "DELIVERY" THEN "On the way" ELSE "Ready"]
    ELSE IF o.status = "On the way" THEN [o EXCEPT !.status = "Delivered"]
    ELSE IF o.status = "Ready" THEN [o EXCEPT !.status = "Picked Up"]
    ELSE o

simulateOrder(o) ==
    IF o.deliveryType = "SCHEDULED" /\ o.paymentStatus = "PENDING" THEN o
    ELSE IF o.status = "Cancelled" \/ o.status = "Delivered" \/ o.status = "Picked Up"
    THEN o
    ELSE IF o.status = "Pending" THEN [o EXCEPT !.status = "Preparing"]
    ELSE IF o.status = "Preparing"
    THEN [o EXCEPT !.status = IF o.mode = "DELIVERY" THEN "On the way" ELSE "Ready"]
    ELSE IF o.status = "On the way" THEN [o EXCEPT !.status = "Delivered"]
    ELSE IF o.status = "Ready" THEN [o EXCEPT !.status = "Picked Up"]
    ELSE o

simulateAll(os) == [i \in 1..Len(os) |-> simulateOrder(os[i])]

InList(os, id) == \E i \in 1..Len(os) : os[i].id = id

Tick ==
    /\ customerId = DemoUser
    /\ activeView = "ORDERS"
    /\ myOrders' = simulateAll(myOrders)
    /\ lsOrders' = myOrders'
    /\ rendered' = Render(myOrders')
    /\ age' = [i \in OrderIds |->
                 IF InList(myOrders, i) /\ age[i] < MaxAge THEN age[i] + 1 ELSE age[i]]
    /\ UNCHANGED <<stores, inventoryChannels, activeView, selectedStore, storeProducts,
                   cart, showPayment,
                   pendingOrderDetails, nextId>>
    /\ UNCHANGED <<consoleVars, feedVars>>
    /\ UNCHANGED viewVars

(***************************************************************************)
(* Store-owner console: constants, backend conversions and actions.        *)
(***************************************************************************)
Sessions == {"a", "b"}

LiveUser == "owner-1"

Tabs == {"DASHBOARD", "INVENTORY", "ORDERS", "PROFILE"}

StoreNames == {"", "My Demo Store", "Corner Mart"}

StoreAddresses == {"", "12 Main Rd"}

\* myStore before loadStore has answered (null).
NullStore == [id |-> "null", name |-> "", address |-> ""]

DefaultDemoStore == [id |-> "demo-store-1", name |-> "My Demo Store", address |-> ""]

\* The row of the `stores` table owned by LiveUser, as getMyStore returns it.
LiveStore == [id |-> "store-1", name |-> "Corner Mart", address |-> "12 Main Rd"]

EmptyForm == [name |-> "", address |-> ""]

mockOrders ==
    <<[id |-> "demo-ord-1", total |-> 120, status |-> "Placed", paymentStatus |-> "PAID",
       mode |-> "DELIVERY", deliveryType |-> "INSTANT"]>>

\* String.prototype.toLowerCase on the status names.
toLowerCase(status) ==
    CASE status = "Pending" -> "pending"
      [] status = "Placed" -> "placed"
      [] status = "Accepted" -> "accepted"
      [] status = "Preparing" -> "preparing"
      [] status = "Ready" -> "ready"
      [] status = "On the way" -> "on the way"
      [] status = "Delivered" -> "delivered"
      [] status = "Picked Up" -> "picked up"
      [] status = "Cancelled" -> "cancelled"
      [] status = "Rejected" -> "rejected"

\* Variant: only toLowerCase is applied.
dbStatus_LowerCaseOnly(status) == toLowerCase(status)

\* The value updateStoreOrderStatus writes to the status column.
dbStatus(status) ==
    CASE status = "Preparing" -> "packing"
      [] status = "Ready" -> "ready"
      [] status = "Picked Up" -> "picked_up"
      [] status = "On the way" -> "on_way"
      [] status = "Rejected" -> "rejected"
      [] status = "Accepted" -> "accepted"
      [] OTHER -> toLowerCase(status)

\* Variant: the update is applied only to a row still in the placed status.
updateStoreOrderStatus_OnlyIfPlaced(table, orderId, status) ==
    [i \in 1..Len(table) |->
        IF table[i].id = orderId /\ table[i].status = "placed"
        THEN [table[i] EXCEPT !.status = dbStatus(status)]
        ELSE table[i]]

\* update({status}).eq('id', orderId): no condition on the row's current status.
updateStoreOrderStatus(table, orderId, status) ==
    [i \in 1..Len(table) |->
        IF table[i].id = orderId
        THEN [table[i] EXCEPT !.status = dbStatus(status)]
        ELSE table[i]]

\* Variant: the query leaves out the rows that are still in the placed status.
getIncomingOrders_SkipsPlaced(table) ==
    LET rows == SelectSeq(table, LAMBDA row : row.status # "placed")
    IN [i \in 1..Len(rows) |->
           [id |-> rows[i].id,
            items |-> rows[i].items,
            total |-> rows[i].total_amount,
            status |-> mapDbStatusToAppStatus(rows[i].status),
            paymentStatus |-> "PAID",
            mode |-> IF rows[i].type = "" THEN "DELIVERY" ELSE rows[i].type,
            deliveryType |-> "INSTANT"]]

\* The list getIncomingOrders builds from the rows it selected; a row without
\* a type ("") is shown as a delivery order.
getIncomingOrders(table) ==
    [i \in 1..Len(table) |->
        [id |-> table[i].id,
         items |-> table[i].items,
         total |-> table[i].total_amount,
         status |-> mapDbStatusToAppStatus(table[i].status),
         paymentStatus |-> "PAID",
         mode |-> IF table[i].type = "" THEN "DELIVERY" ELSE table[i].type,
         deliveryType |-> "INSTANT"]]

\* The statuses the buttons under an order card pass to handleOrderStatus.
statusButtons(status) ==
    CASE status = "Placed" -> {"Rejected", "Accepted"}
      [] status = "Accepted" -> {"Preparing"}
      [] status = "Preparing" -> {"Ready"}
      [] status = "Ready" -> {"Picked Up"}
      [] OTHER -> {}

\* No call issued by a realtime callback is outstanding.
NoFetches == [due |-> FALSE, inFlight |-> {}, staleDue |-> FALSE, staleInFlight |-> {}]

\* No store-owner console is open.
ConsoleIdle ==
    /\ userId = LiveUser
    /\ consoles = {}
    /\ ordersTable = <<>>
    /\ demoProfile = NullStore
    /\ myStore = [s \in Sessions |-> NullStore]
    /\ activeTab = [s \in Sessions |-> "DASHBOARD"]
    /\ orders = [s \in Sessions |-> <<>>]
    /\ profileForm = [s \in Sessions |-> EmptyForm]
    /\ isEditingProfile = [s \in Sessions |-> FALSE]
    /\ refetch = [s \in Sessions |-> FALSE]
    /\ replies = [s \in Sessions |-> {}]
    /\ alerted = [s \in Sessions |-> FALSE]
    /\ callbackFetches = [s \in Sessions |-> NoFetches]
    /\ backendCalls = {}
    /\ inventory = [s \in Sessions |-> <<>>]
    /\ inventoryTable = {}
    /\ demoInventory = <<>>

\* StoreApp mounted in the sessions `open`, signed in as `uid`, over the order
\* rows `table` and the inventory rows `rows`; `saved` is the demo profile the
\* browser holds.
ConsoleInitOver(uid, open, table, saved, rows) ==
    /\ userId = uid
    /\ consoles = open
    /\ ordersTable = table
    /\ demoProfile = saved
    /\ myStore = [s \in Sessions |-> NullStore]
    /\ activeTab = [s \in Sessions |-> "DASHBOARD"]
    /\ orders = [s \in Sessions |-> <<>>]
    /\ profileForm = [s \in Sessions |-> EmptyForm]
    /\ isEditingProfile = [s \in Sessions |-> FALSE]
    /\ refetch = [s \in Sessions |-> FALSE]
    /\ replies = [s \in Sessions |-> {}]
    /\ alerted = [s \in Sessions |-> FALSE]
    /\ callbackFetches = [s \in Sessions |-> NoFetches]
    /\ backendCalls = {}
    /\ inventory = [s \in Sessions |-> <<>>]
    /\ inventoryTable = rows
    /\ demoInventory = <<>>

\* The same over an empty inventory table.
ConsoleInit(uid, open, table, saved) == ConsoleInitOver(uid, open, table, saved, {})

\* The catalogue INITIAL_PRODUCTS; every product carries a reference price.
INITIAL_PRODUCTS ==
    <<[id |-> "1", price |-> 60, mrp |-> 70],
      [id |-> "2", price |-> 30, mrp |-> 30]>>

\* An absent reference price (mrp undefined).
NoMrp == 0

\* The stock the demo account's default inventory gives its listed items.
DemoStock == 20

\* The inventory the demo account starts with when none is saved: product 1
\* is listed and in stock, the others are not.
demoInv ==
    [i \in 1..Len(INITIAL_PRODUCTS) |->
        LET p == INITIAL_PRODUCTS[i]
        IN [id |-> p.id,
            price |-> p.price,
            inStock |-> p.id = "1",
            stock |-> IF p.id = "1" THEN DemoStock ELSE 0,
            storePrice |-> p.price,
            mrp |-> IF p.mrp # NoMrp THEN p.mrp ELSE p.price,
            isActive |-> p.id = "1",
            brandDetails |-> {}]]

\* The data-sync effect, run after a render in which myStore changed: the
\* demo account gets its saved or default inventory and the mock order, a
\* live account fetches and subscribes (its inventory arrives with
\* fetchInventory).
\* The cleanup of the previous run has removed the channels that run had
\* subscribed; the calls their callbacks issued stay outstanding.
SyncEffect(s) ==
    /\ orders' = IF userId = DemoUser THEN [orders EXCEPT ![s] = mockOrders] ELSE orders
    /\ refetch' = IF userId = DemoUser THEN refetch ELSE [refetch EXCEPT ![s] = TRUE]
    /\ callbackFetches' =
          IF userId = DemoUser THEN callbackFetches
          ELSE [callbackFetches EXCEPT ![s] =
                   [due |-> FALSE,
                    inFlight |-> {},
                    staleDue |-> @.staleDue \/ @.due,
                    staleInFlight |-> @.staleInFlight \cup @.inFlight]]
    /\ inventory' =
          IF userId # DemoUser THEN inventory
          ELSE [inventory EXCEPT ![s] =
                   IF demoInventory # <<>> THEN demoInventory ELSE demoInv]
    /\ demoInventory' =
          IF userId = DemoUser /\ demoInventory = <<>> THEN demoInv ELSE demoInventory
    /\ UNCHANGED inventoryTable

\* What the data-sync effect asks of the backend: nothing for the demo
\* account, the two channels for a live one (its fetches are counted when
\* they reach the backend).
SyncCalls == IF userId = DemoUser THEN {} ELSE {"channel"}

\* loadStore: getMyStore queries the stores table for every account; it finds
\* no row for the demo account, which falls back to the saved or the default
\* demo profile.
loadStore(s) ==
    /\ s \in consoles
    /\ myStore[s] = NullStore
    /\ myStore' = [myStore EXCEPT ![s] =
                      IF userId = DemoUser
                      THEN (IF demoProfile # NullStore THEN demoProfile
                            ELSE DefaultDemoStore)
                      ELSE LiveStore]
    /\ SyncEffect(s)
    /\ backendCalls' = backendCalls \cup {"getMyStore"} \cup SyncCalls
    /\ UNCHANGED <<userId, consoles, ordersTable, demoProfile, activeTab, profileForm,
                   isEditingProfile, replies, alerted>>
    /\ UNCHANGED <<simVars, feedVars>>
    /\ UNCHANGED viewVars

\* The bottom navigation, the dashboard shortcuts and the timer that opens
\* the profile tab all call setActiveTab.
setActiveTab(s, tab) ==
    /\ s \in consoles
    /\ myStore[s] # NullStore
    /\ activeTab[s] # tab
    /\ activeTab' = [activeTab EXCEPT ![s] = tab]
    /\ UNCHANGED <<userId, consoles, ordersTable, demoProfile, myStore, orders,
                   profileForm, isEditingProfile, refetch, replies, alerted,
                   callbackFetches, backendCalls>>
    /\ UNCHANGED <<simVars, feedVars, stockVars>>
    /\ UNCHANGED viewVars

\* Consoles whose realtime channel on the orders table is subscribed.
Subscribed == {c \in consoles : myStore[c] # NullStore}

\* Variant: the console shows the new status before the write is answered
\* and keeps it when the write fails.
handleOrderStatus_Optimistic(s, orderId, status, ok) ==
    /\ s \in consoles
    /\ myStore[s] # NullStore
    /\ activeTab[s] = "ORDERS"
    /\ \E i \in 1..Len(orders[s]) :
          /\ orders[s][i].id = orderId
          /\ status \in statusButtons(orders[s][i].status)
    /\ IF userId = DemoUser
       THEN /\ ok
            /\ orders' = [orders EXCEPT ![s] =
                  [i \in 1..Len(orders[s]) |->
                      IF orders[s][i].id = orderId
                      THEN [orders[s][i] EXCEPT !.status = status]
                      ELSE orders[s][i]]]
            /\ UNCHANGED <<ordersTable, refetch, alerted, events, callbackFetches,
                           backendCalls>>
       ELSE IF ok
       THEN /\ Len(events) < MaxEvents
            /\ ordersTable' = updateStoreOrderStatus(ordersTable, orderId, status)
            /\ refetch' = [c \in Sessions |-> (c \in Subscribed) \/ refetch[c]]
            /\ callbackFetches' =
                  [c \in Sessions |->
                      IF c \in Subscribed THEN [callbackFetches[c] EXCEPT !.due = TRUE]
                      ELSE callbackFetches[c]]
            /\ events' = IF subscription = "active"
                         THEN Append(events, [id |-> orderId, status |-> dbStatus(status)])
                         ELSE events
            /\ alerted' = [alerted EXCEPT ![s] = FALSE]
            /\ backendCalls' = backendCalls \cup {"updateStoreOrderStatus"}
            /\ orders' = [orders EXCEPT ![s] =
                  [i \in 1..Len(orders[s]) |->
                      IF orders[s][i].id = orderId
                      THEN [orders[s][i] EXCEPT !.status = status]
                      ELSE orders[s][i]]]
       ELSE /\ alerted' = [alerted EXCEPT ![s] = TRUE]
            /\ backendCalls' = backendCalls \cup {"updateStoreOrderStatus"}
            /\ orders' = [orders EXCEPT ![s] =
                  [i \in 1..Len(orders[s]) |->
                      IF orders[s][i].id = orderId
                      THEN [orders[s][i] EXCEPT !.status = status]
                      ELSE orders[s][i]]]
            /\ UNCHANGED <<ordersTable, refetch, events, callbackFetches>>
    /\ UNCHANGED <<userId, consoles, demoProfile, myStore, activeTab, profileForm,
                   isEditingProfile, replies>>
    /\ UNCHANGED <<simVars, customerId, subscription, userReplies, stockVars>>
    /\ UNCHANGED viewVars

\* A click on a status button of the order card `orderId`.  The demo account
\* rewrites the list it holds.  A live account sends the update (ok: the
\* backend applied it; otherwise the call throws and the alert is shown); the
\* change is announced to every subscribed console and to the customer's
\* open channel, and the acting console fetches again as well.
handleOrderStatus(s, orderId, status, ok) ==
    /\ s \in consoles
    /\ myStore[s] # NullStore
    /\ activeTab[s] = "ORDERS"
    /\ \E i \in 1..Len(orders[s]) :
          /\ orders[s][i].id = orderId
          /\ status \in statusButtons(orders[s][i].status)
    /\ IF userId = DemoUser
       THEN /\ ok
            /\ orders' = [orders EXCEPT ![s] =
                  [i \in 1..Len(orders[s]) |->
                      IF orders[s][i].id = orderId
                      THEN [orders[s][i] EXCEPT !.status = status]
                      ELSE orders[s][i]]]
            /\ UNCHANGED <<ordersTable, refetch, alerted, events, callbackFetches,
                           backendCalls>>
       ELSE IF ok
       THEN /\ Len(events) < MaxEvents
            /\ ordersTable' = updateStoreOrderStatus(ordersTable, orderId, status)
            /\ refetch' = [c \in Sessions |-> (c \in Subscribed) \/ refetch[c]]
            /\ callbackFetches' =
                  [c \in Sessions |->
                      IF c \in Subscribed THEN [callbackFetches[c] EXCEPT !.due = TRUE]
                      ELSE callbackFetches[c]]
            /\ events' = IF subscription = "active"
                         THEN Append(events, [id |-> orderId, status |-> dbStatus(status)])
                         ELSE events
            /\ alerted' = [alerted EXCEPT ![s] = FALSE]
            /\ backendCalls' = backendCalls \cup {"updateStoreOrderStatus"}
            /\ UNCHANGED orders
       ELSE /\ alerted' = [alerted EXCEPT ![s] = TRUE]
            /\ backendCalls' = backendCalls \cup {"updateStoreOrderStatus"}
            /\ UNCHANGED <<ordersTable, orders, refetch, events, callbackFetches>>
    /\ UNCHANGED <<userId, consoles, demoProfile, myStore, activeTab, profileForm,
                   isEditingProfile, replies>>
    /\ UNCHANGED <<simVars, customerId, subscription, userReplies, stockVars>>
    /\ UNCHANGED viewVars

\* updateStoreOrderStatus called for a row with any application status and
\* applied by the backend; the change is announced as after handleOrderStatus.
updateStatusCall(orderId, status) ==
    /\ userId # DemoUser
    /\ \E j \in 1..Len(ordersTable) : ordersTable[j].id = orderId
    /\ subscription = "active" => Len(events) < MaxEvents
    /\ ordersTable' = updateStoreOrderStatus(ordersTable, orderId, status)
    /\ refetch' = [c \in Sessions |-> (c \in Subscribed) \/ refetch[c]]
    /\ callbackFetches' =
          [c \in Sessions |->
              IF c \in Subscribed THEN [callbackFetches[c] EXCEPT !.due = TRUE]
              ELSE callbackFetches[c]]
    /\ events' = IF subscription = "active"
                 THEN Append(events, [id |-> orderId, status |-> dbStatus(status)])
                 ELSE events
    /\ backendCalls' = backendCalls \cup {"updateStoreOrderStatus"}
    /\ UNCHANGED <<userId, consoles, demoProfile, myStore, activeTab, orders,
                   profileForm, isEditingProfile, replies, alerted>>
    /\ UNCHANGED <<simVars, customerId, subscription, userReplies, stockVars>>
    /\ UNCHANGED viewVars

\* A due getIncomingOrders call reaches the backend, which answers with the
\* rows it holds at that moment, or with an error that the function turns
\* into an empty list.
IncomingOrdersQuery(s, ok) ==
    /\ s \in consoles
    /\ refetch[s]
    /\ Cardinality(replies[s]) < MaxInFlight
    /\ refetch' = [refetch EXCEPT ![s] = FALSE]
    /\ backendCalls' = backendCalls \cup {"getIncomingOrders"}
    /\ LET reply == IF ok THEN getIncomingOrders(ordersTable) ELSE <<>>
       IN /\ replies' = [replies EXCEPT ![s] = @ \cup {reply}]
          /\ callbackFetches' = [callbackFetches EXCEPT ![s] =
                [due |-> FALSE,
                 inFlight |-> IF @.due THEN @.inFlight \cup {reply} ELSE @.inFlight,
                 staleDue |-> FALSE,
                 staleInFlight |-> IF @.staleDue THEN @.staleInFlight \cup {reply}
                                   ELSE @.staleInFlight]]
    /\ UNCHANGED <<userId, consoles, ordersTable, demoProfile, myStore, activeTab,
                   orders, profileForm, isEditingProfile, alerted>>
    /\ UNCHANGED <<simVars, feedVars, stockVars>>
    /\ UNCHANGED viewVars

\* A getIncomingOrders promise resolves: .then(setOrders).
setOrders(s, reply) ==
    /\ s \in consoles
    /\ reply \in replies[s]
    /\ orders' = [orders EXCEPT ![s] = reply]
    /\ replies' = [replies EXCEPT ![s] = @ \ {reply}]
    /\ callbackFetches' = [callbackFetches EXCEPT ![s] =
          [@ EXCEPT !.inFlight = @ \ {reply}, !.staleInFlight = @ \ {reply}]]
    /\ UNCHANGED <<userId, consoles, ordersTable, demoProfile, myStore, activeTab,
                   profileForm, isEditingProfile, refetch, alerted, backendCalls>>
    /\ UNCHANGED <<simVars, feedVars, stockVars>>
    /\ UNCHANGED viewVars

startEditingProfile(s) ==
    /\ s \in consoles
    /\ myStore[s] # NullStore
    /\ activeTab[s] = "PROFILE"
    /\ ~isEditingProfile[s]
    /\ profileForm' = [profileForm EXCEPT ![s] =
                          [name |-> myStore[s].name, address |-> myStore[s].address]]
    /\ isEditingProfile' = [isEditingProfile EXCEPT ![s] = TRUE]
    /\ UNCHANGED <<userId, consoles, ordersTable, demoProfile, myStore, activeTab,
                   orders, refetch, replies, alerted,
                   callbackFetches, backendCalls>>
    /\ UNCHANGED <<simVars, feedVars, stockVars>>
    /\ UNCHANGED viewVars

\* onChange of the name input (field = "name") or the address box.
setProfileForm(s, field, value) ==
    /\ s \in consoles
    /\ myStore[s] # NullStore
    /\ activeTab[s] = "PROFILE"
    /\ isEditingProfile[s]
    /\ profileForm[s][field] # value
    /\ profileForm' = [profileForm EXCEPT ![s][field] = value]
    /\ UNCHANGED <<userId, consoles, ordersTable, demoProfile, myStore, activeTab,
                   orders, isEditingProfile, refetch, replies, alerted,
                   callbackFetches, backendCalls>>
    /\ UNCHANGED <<simVars, feedVars, stockVars>>
    /\ UNCHANGED viewVars

\* The Cancel button of the profile form.
cancelEditingProfile(s) ==
    /\ s \in consoles
    /\ myStore[s] # NullStore
    /\ activeTab[s] = "PROFILE"
    /\ isEditingProfile[s]
    /\ isEditingProfile' = [isEditingProfile EXCEPT ![s] = FALSE]
    /\ UNCHANGED <<userId, consoles, ordersTable, demoProfile, myStore, activeTab,
                   orders, profileForm, refetch, replies, alerted,
                   callbackFetches, backendCalls>>
    /\ UNCHANGED <<simVars, feedVars, stockVars>>
    /\ UNCHANGED viewVars

\* Save Changes.  setMyStore is given a new object, so the data-sync effect
\* runs again.  ok: updateStoreProfile succeeded (live accounts only).
saveProfile(s, ok) ==
    /\ s \in consoles
    /\ myStore[s] # NullStore
    /\ activeTab[s] = "PROFILE"
    /\ isEditingProfile[s]
    /\ IF profileForm[s].name = "" \/ profileForm[s].address = ""
       THEN /\ ok
            /\ UNCHANGED consoleVars
       ELSE LET updatedStore == [myStore[s] EXCEPT !.name = profileForm[s].name,
                                                   !.address = profileForm[s].address]
            IN /\ myStore' = [myStore EXCEPT ![s] = updatedStore]
               /\ SyncEffect(s)
               /\ IF userId = DemoUser
                  THEN /\ ok
                       /\ demoProfile' = updatedStore
                       /\ isEditingProfile' = [isEditingProfile EXCEPT ![s] = FALSE]
                       /\ backendCalls' = backendCalls \cup SyncCalls
                       /\ UNCHANGED alerted
                  ELSE /\ isEditingProfile' = [isEditingProfile EXCEPT ![s] = ~ok]
                       /\ alerted' = [alerted EXCEPT ![s] = ~ok]
                       /\ backendCalls' = backendCalls \cup SyncCalls
                                                       \cup {"updateStoreProfile"}
                       /\ UNCHANGED demoProfile
               /\ UNCHANGED <<userId, consoles, ordersTable, activeTab, profileForm,
                              replies>>
    /\ UNCHANGED <<simVars, feedVars>>
    /\ UNCHANGED viewVars


(***************************************************************************)
(* StoreApp: the inventory tab.                                            *)
(***************************************************************************)
\* newBrandDetails left out of a handleInventoryUpdate call (undefined).
Undefined == {[brand |-> "undefined", price |-> 0, mrp |-> 0, stock |-> 0,
               inStock |-> FALSE]}

\* getStoreInventory: every catalogue product, with the listing state of its
\* row when the table holds one.
getStoreInventory(table) ==
    [i \in 1..Len(INITIAL_PRODUCTS) |->
        LET catalogItem == INITIAL_PRODUCTS[i]
            dbRows == {r \in table : r.product_id = catalogItem.id}
        IN IF dbRows = {}
           THEN [id |-> catalogItem.id, price |-> catalogItem.price,
                 mrp |-> catalogItem.mrp, inStock |-> FALSE, stock |-> 0,
                 storePrice |-> catalogItem.price, isActive |-> FALSE,
                 brandDetails |-> {}]
           ELSE LET dbItem == CHOOSE r \in dbRows : TRUE
                IN [id |-> catalogItem.id, price |-> catalogItem.price,
                    mrp |-> catalogItem.mrp, inStock |-> dbItem.in_stock,
                    stock |-> dbItem.stock, storePrice |-> dbItem.price,
                    isActive |-> TRUE, brandDetails |-> dbItem.brand_data]]

\* updateInventoryItem: upsert on (store_id, product_id).
updateInventoryItem(table, productId, price, inStock, stock, brandDetails) ==
    {r \in table : r.product_id # productId}
       \cup {[product_id |-> productId, price |-> price, in_stock |-> inStock,
               stock |-> stock, brand_data |-> brandDetails]}

\* deleteInventoryItem: the row of the product is removed.
deleteInventoryItem(table, productId) == {r \in table : r.product_id # productId}

finalMrp(product, newMrp) ==
    IF newMrp # NoMrp THEN newMrp
    ELSE IF product.mrp # NoMrp THEN product.mrp ELSE product.price

finalBrandDetails(product, newBrandDetails) ==
    IF newBrandDetails # Undefined THEN newBrandDetails ELSE product.brandDetails

\* Variant: an item switched off loses its stock count.
updatedInventory_ZeroWhenOff(inv, product, newPrice, newStockStatus, newStockQty, newMrp, newBrandDetails) ==
    [i \in 1..Len(inv) |->
        IF inv[i].id = product.id
        THEN [inv[i] EXCEPT !.storePrice = newPrice,
                            !.mrp = finalMrp(product, newMrp),
                            !.inStock = newStockStatus,
                            !.stock = IF newStockStatus THEN newStockQty ELSE 0,
                            !.isActive = TRUE,
                            !.brandDetails = finalBrandDetails(product, newBrandDetails)]
        ELSE inv[i]]

\* The optimistic update of handleInventoryUpdate: inventory.map(...).
updatedInventory(inv, product, newPrice, newStockStatus, newStockQty, newMrp, newBrandDetails) ==
    [i \in 1..Len(inv) |->
        IF inv[i].id = product.id
        THEN [inv[i] EXCEPT !.storePrice = newPrice,
                            !.mrp = finalMrp(product, newMrp),
                            !.inStock = newStockStatus,
                            !.stock = newStockQty,
                            !.isActive = TRUE,
                            !.brandDetails = finalBrandDetails(product, newBrandDetails)]
        ELSE inv[i]]

\* The first getStoreInventory call of a live console's data-sync effect
\* resolves: setInventory(inv).
fetchInventory(s) ==
    /\ s \in consoles
    /\ userId # DemoUser
    /\ myStore[s] # NullStore
    /\ inventory[s] = <<>>
    /\ inventory' = [inventory EXCEPT ![s] = getStoreInventory(inventoryTable)]
    /\ backendCalls' = backendCalls \cup {"getStoreInventory"}
    /\ UNCHANGED <<userId, consoles, ordersTable, demoProfile, myStore, activeTab,
                   orders, profileForm, isEditingProfile, refetch, replies, alerted,
                   callbackFetches, inventoryTable, demoInventory>>
    /\ UNCHANGED <<simVars, feedVars>>
    /\ UNCHANGED viewVars

\* handleInventoryUpdate: the list is updated at once; the demo account
\* saves it on the device, a live account sends the upsert (ok: the backend
\* stored it; a failure is logged and nothing is undone).
handleInventoryUpdate(s, product, newPrice, newStockStatus, newStockQty, newMrp, newBrandDetails, ok) ==
    /\ s \in consoles
    /\ myStore[s] # NullStore
    /\ LET updated == updatedInventory(inventory[s], product, newPrice, newStockStatus,
                                       newStockQty, newMrp, newBrandDetails)
       IN /\ inventory' = [inventory EXCEPT ![s] = updated]
          /\ IF userId = DemoUser
             THEN /\ ok
                  /\ demoInventory' = updated
                  /\ UNCHANGED <<inventoryTable, backendCalls>>
             ELSE /\ inventoryTable' =
                        IF ok
                        THEN updateInventoryItem(inventoryTable, product.id, newPrice,
                                                 newStockStatus, newStockQty,
                                                 finalBrandDetails(product, newBrandDetails))
                        ELSE inventoryTable
                  /\ backendCalls' = backendCalls \cup {"updateInventoryItem"}
                  /\ UNCHANGED demoInventory
    /\ UNCHANGED <<userId, consoles, ordersTable, demoProfile, myStore, activeTab,
                   orders, profileForm, isEditingProfile, refetch, replies, alerted,
                   callbackFetches>>
    /\ UNCHANGED <<simVars, feedVars>>
    /\ UNCHANGED viewVars

\* The switch on the card of a listed item (lines 728-733).
toggleInStock(s, id, ok) ==
    /\ activeTab[s] = "INVENTORY"
    /\ \E i \in 1..Len(inventory[s]) :
          LET item == inventory[s][i]
          IN /\ item.id = id
             /\ item.isActive
             /\ handleInventoryUpdate(s, item, item.storePrice, ~item.inStock,
                                      item.stock, item.mrp, Undefined, ok)

\* The brands the catalogue lists for its products, and the price the
\* catalogue gives each brand.
Brands == {"Amul", "Nandini"}

BrandPrice(brandName) == IF brandName = "Amul" THEN 65 ELSE 62

\* The fields of BrandInventoryInfo and the values the brand card's switch
\* and inputs can pass for each.
BrandFields == {"price", "mrp", "stock", "inStock"}

BrandFieldValues(field) ==
    CASE field = "price" -> {30, 60}
      [] field = "mrp" -> {70}
      [] field = "stock" -> 0..MaxStock
      [] field = "inStock" -> BOOLEAN

\* currentDetails[brandName] || { price, mrp, stock: 0, inStock: true }
brandInfo(product, brandName) ==
    LET held == {b \in product.brandDetails : b.brand = brandName}
    IN IF held # {} THEN CHOOSE b \in held : TRUE
       ELSE [brand |-> brandName,
             price |-> product.storePrice,
             mrp |-> BrandPrice(brandName),
             stock |-> 0,
             inStock |-> TRUE]

\* { ...currentDetails, [brandName]: { ...brandInfo, [field]: value } }
newBrandDetails(product, brandName, field, value) ==
    {b \in product.brandDetails : b.brand # brandName}
       \cup {[brandInfo(product, brandName) EXCEPT ![field] = value]}

\* Object.values(details).reduce((sum, b) => sum + (b.inStock ? b.stock : 0), 0)
RECURSIVE SumOfferedStock(_)
SumOfferedStock(details) ==
    IF details = {} THEN 0
    ELSE LET b == CHOOSE x \in details : TRUE
         IN (IF b.inStock THEN b.stock ELSE 0) + SumOfferedStock(details \ {b})

\* Variant: the total also counts the variants that are switched off.
newTotalStock_CountsSwitchedOff(product, details, field) ==
    IF field = "stock" \/ field = "inStock"
    THEN SumOfferedStock({[b EXCEPT !.inStock = TRUE] : b \in details})
    ELSE product.stock

\* The total is computed again only when a variant's stock or switch changes.
newTotalStock(product, details, field) ==
    IF field = "stock" \/ field = "inStock" THEN SumOfferedStock(details)
    ELSE product.stock

\* handleBrandInventoryUpdate: the switch or an input of the card of brand
\* `brandName` under the listed item `id`.
handleBrandInventoryUpdate(s, id, brandName, field, value, ok) ==
    /\ activeTab[s] = "INVENTORY"
    /\ brandName \in Brands
    /\ value \in BrandFieldValues(field)
    /\ \E i \in 1..Len(inventory[s]) :
          LET product == inventory[s][i]
              details == newBrandDetails(product, brandName, field, value)
          IN /\ product.id = id
             /\ product.isActive
             /\ brandInfo(product, brandName)[field] # value
             /\ handleInventoryUpdate(s, product, product.storePrice, product.inStock,
                                      newTotalStock(product, details, field),
                                      product.mrp, details, ok)

\* handleDeleteItem: the item leaves the managed list at once; when the
\* backend refuses the delete, the item is listed again.
handleDeleteItem(s, id, ok) ==
    /\ s \in consoles
    /\ myStore[s] # NullStore
    /\ activeTab[s] = "INVENTORY"
    /\ \E i \in 1..Len(inventory[s]) : inventory[s][i].id = id /\ inventory[s][i].isActive
    /\ LET updated == [i \in 1..Len(inventory[s]) |->
                          IF inventory[s][i].id = id
                          THEN [inventory[s][i] EXCEPT !.isActive = FALSE,
                                                       !.inStock = FALSE,
                                                       !.stock = 0]
                          ELSE inventory[s][i]]
           reverted == [i \in 1..Len(updated) |->
                           IF updated[i].id = id
                           THEN [updated[i] EXCEPT !.isActive = TRUE]
                           ELSE updated[i]]
       IN IF userId = DemoUser
          THEN /\ ok
               /\ inventory' = [inventory EXCEPT ![s] = updated]
               /\ demoInventory' = updated
               /\ UNCHANGED <<inventoryTable, backendCalls>>
          ELSE /\ inventory' = [inventory EXCEPT ![s] = IF ok THEN updated ELSE reverted]
               /\ inventoryTable' = IF ok THEN deleteInventoryItem(inventoryTable, id)
                                     ELSE inventoryTable
               /\ backendCalls' = backendCalls \cup {"deleteInventoryItem"}
               /\ UNCHANGED demoInventory
    /\ UNCHANGED <<userId, consoles, ordersTable, demoProfile, myStore, activeTab,
                   orders, profileForm, isEditingProfile, refetch, replies, alerted,
                   callbackFetches>>
    /\ UNCHANGED <<simVars, feedVars>>
    /\ UNCHANGED viewVars

(***************************************************************************)
(* MyOrders of a registered customer: first fetch and realtime callback.   *)
(***************************************************************************)
\* The status the subscribeToUserOrders callback derives from a changed row.
callbackStatus(db) ==
    IF db = "cancelled" THEN "Cancelled"
    ELSE IF db = "picked_up" THEN "Picked Up"
    ELSE IF db = "delivered" THEN "Delivered"
    ELSE IF db = "on_way" THEN "On the way"
    ELSE IF db = "ready" THEN "Ready"
    ELSE IF db = "packing" THEN "Preparing"
    ELSE "Pending"

\* Variant: the callback rebuilds the order from the changed row, which
\* carries no line items.
mergeOrderEvent_Rebuilt(os, updatedOrderDb) ==
    [i \in 1..Len(os) |->
        IF os[i].id = updatedOrderDb.id
        THEN [os[i] EXCEPT !.status = callbackStatus(updatedOrderDb.status),
                           !.items = <<>>]
        ELSE os[i]]

\* prev.map(...) of the callback: the listed order with the row's id gets the
\* derived status, every other order is returned as it is.
mergeOrderEvent(os, updatedOrderDb) ==
    [i \in 1..Len(os) |->
        IF os[i].id = updatedOrderDb.id
        THEN [os[i] EXCEPT !.status = callbackStatus(updatedOrderDb.status)]
        ELSE os[i]]

\* The getUserOrders promise of the mounted MyOrders resolves.
setUserOrders(reply) ==
    /\ customerId # DemoUser
    /\ activeView = "ORDERS"
    /\ reply \in userReplies
    /\ myOrders' = reply
    /\ rendered' = Render(myOrders')
    /\ userReplies' = userReplies \ {reply}
    /\ UNCHANGED <<stores, inventoryChannels, activeView, selectedStore, storeProducts,
                   cart, showPayment,
                   pendingOrderDetails, lsOrders, nextId, age>>
    /\ UNCHANGED <<consoleVars, customerId, subscription, events>>
    /\ UNCHANGED viewVars

\* The channel hands the oldest announced row to the callback.
userOrderEvent ==
    /\ customerId # DemoUser
    /\ subscription = "active"
    /\ events # <<>>
    /\ myOrders' = mergeOrderEvent(myOrders, Head(events))
    /\ rendered' = Render(myOrders')
    /\ events' = Tail(events)
    /\ UNCHANGED <<stores, inventoryChannels, activeView, selectedStore, storeProducts,
                   cart, showPayment,
                   pendingOrderDetails, lsOrders, nextId, age>>
    /\ UNCHANGED <<consoleVars, customerId, subscription, userReplies>>
    /\ UNCHANGED viewVars

\* The ids the backend gives the rows of the orders table, in order of insertion.
RowIds == <<"ord-1", "ord-2", "ord-3", "ord-4">>

\* orderService.saveOrder for a registered customer: the order becomes a row
\* of the store's orders table in the placed status, under the id the backend
\* gives it.
insertOrder(table, o) ==
    Append(table, [id |-> RowIds[Len(table) + 1], items |-> o.items, status |-> "placed",
                   type |-> o.mode, total_amount |-> o.total])

\* PaymentGateway onSuccess.  With an empty cart, cart[0].storeName throws
\* before anything is saved or reset.  The demo account's order goes to the
\* device's list; a registered customer's order goes to the backend, whose
\* insert is announced to the subscribed consoles of the store, and the
\* order history that opens next fetches the customer's orders and opens
\* its channel.
handlePaymentSuccess ==
    /\ showPayment /\ pendingOrderDetails # NoDetails
    /\ nextId <= MaxCheckouts
    /\ IF cart = <<>>
       THEN UNCHANGED <<simVars, consoleVars, feedVars>>
       ELSE /\ nextId' = nextId + 1
            /\ cart' = <<>>
            /\ showPayment' = FALSE
            /\ activeView' = "ORDERS"
            /\ IF customerId = DemoUser
               THEN /\ lsOrders' = saveOrder(lsOrders, newOrder(nextId, cart,
                                                 pendingOrderDetails, selectedStore))
                    /\ myOrders' = MountedOrders("ORDERS", lsOrders', myOrders)
                    /\ UNCHANGED <<consoleVars, feedVars>>
               ELSE /\ ordersTable' = insertOrder(ordersTable, newOrder(nextId, cart,
                                                     pendingOrderDetails, selectedStore))
                    /\ refetch' = [c \in Sessions |-> (c \in Subscribed) \/ refetch[c]]
                    /\ callbackFetches' =
                          [c \in Sessions |->
                              IF c \in Subscribed
                              THEN [callbackFetches[c] EXCEPT !.due = TRUE]
                              ELSE callbackFetches[c]]
                    /\ myOrders' = <<>>
                    /\ subscription' = "active"
                    /\ events' = <<>>
                    /\ userReplies' \in {{getUserOrders(ordersTable')}, {}}
                    /\ UNCHANGED <<lsOrders, customerId>>
                    /\ UNCHANGED <<userId, consoles, demoProfile, myStore, activeTab,
                                   orders, profileForm, isEditingProfile, replies,
                                   alerted, backendCalls, stockVars>>
            /\ rendered' = Render(myOrders')
            /\ UNCHANGED <<stores, inventoryChannels, selectedStore, storeProducts,
                           pendingOrderDetails, age>>
    /\ UNCHANGED viewVars

(***************************************************************************)
(* The loading flags of StoreApp and MyOrders.                             *)
(***************************************************************************)
ScreenUsers == {NoUser, DemoUser, "user-1"}

\* StoreApp's mount effect (loadStore): without user.id it returns before
\* anything is set; otherwise it raises the flag and awaits getMyStore.
loadStoreEffect(outcome) ==
    /\ ~storeScreen.ran
    /\ outcome \in {"pending", "never"}
    /\ storeScreen' =
          IF storeScreen.user = NoUser THEN [storeScreen EXCEPT !.ran = TRUE]
          ELSE [storeScreen EXCEPT !.ran = TRUE, !.loading = TRUE, !.call = outcome]
    /\ UNCHANGED <<historyScreen, auth>>
    /\ UNCHANGED <<simVars, consoleVars, feedVars>>

\* getMyStore is answered (ok) or throws: setMyStore or the catch, then the
\* finally block.
getMyStoreSettles(ok) ==
    /\ storeScreen.call = "pending"
    /\ storeScreen' = [storeScreen EXCEPT !.call = "none", !.store = ok,
                                          !.loading = FALSE]
    /\ UNCHANGED <<historyScreen, auth>>
    /\ UNCHANGED <<simVars, consoleVars, feedVars>>

\* MyOrders' mount effect (fetchOrders): the demo account reads the device's
\* list and a missing userId reads nothing, both ending in the finally block
\* at once; a registered customer awaits getUserOrders.
fetchOrdersEffect(outcome) ==
    /\ ~historyScreen.ran
    /\ outcome \in {"pending", "never"}
    /\ historyScreen' =
          IF historyScreen.userId = DemoUser
          THEN [historyScreen EXCEPT !.ran = TRUE, !.listed = TRUE, !.loading = FALSE]
          ELSE IF historyScreen.userId = NoUser
          THEN [historyScreen EXCEPT !.ran = TRUE, !.loading = FALSE]
          ELSE [historyScreen EXCEPT !.ran = TRUE, !.loading = TRUE, !.call = outcome]
    /\ UNCHANGED <<storeScreen, auth>>
    /\ UNCHANGED <<simVars, consoleVars, feedVars>>

\* getUserOrders is answered (ok) or throws: setOrders or the catch, then
\* the finally block.
getUserOrdersSettles(ok) ==
    /\ historyScreen.call = "pending"
    /\ historyScreen' = [historyScreen EXCEPT !.call = "none", !.listed = ok,
                                              !.loading = FALSE]
    /\ UNCHANGED <<storeScreen, auth>>
    /\ UNCHANGED <<simVars, consoleVars, feedVars>>

\* The customer leaves the orders view: MyOrders is unmounted and will be
\* mounted afresh.
unmountHistory ==
    /\ historyScreen.ran
    /\ historyScreen' = HistoryScreenInit(historyScreen.userId)
    /\ UNCHANGED <<storeScreen, auth>>
    /\ UNCHANGED <<simVars, consoleVars, feedVars>>

(***************************************************************************)
(* The Auth component: login, registration and the verification code.      *)
(***************************************************************************)
\* What the code input can hold, and the codes handleVerifyOTP accepts.
OtpValues == {"", "1234", "0000", "9999"}

AcceptedOtp == {"1234", "0000"}

\* The tab switcher is drawn unless the verification form is up, also while
\* loading; "Back to Login" belongs to the verification form.
setAuthMode(m) ==
    /\ ~auth.loggedIn
    /\ m # auth.authMode
    /\ \/ auth.authMode # "VERIFY" /\ m \in {"LOGIN", "REGISTER"}
       \/ auth.authMode = "VERIFY" /\ ~auth.loading /\ m = "LOGIN"
    /\ auth' = [auth EXCEPT !.authMode = m]
    /\ UNCHANGED <<storeScreen, historyScreen>>
    /\ UNCHANGED <<simVars, consoleVars, feedVars>>

\* onChange of the code input.
setOtp(v) ==
    /\ ~auth.loggedIn
    /\ auth.authMode = "VERIFY" /\ ~auth.loading
    /\ v # auth.otp
    /\ auth' = [auth EXCEPT !.otp = v]
    /\ UNCHANGED <<storeScreen, historyScreen>>
    /\ UNCHANGED <<simVars, consoleVars, feedVars>>

handleRegister ==
    /\ ~auth.loggedIn
    /\ auth.authMode = "REGISTER" /\ ~auth.loading
    /\ auth' = [auth EXCEPT !.errorMsg = "", !.loading = TRUE,
                            !.statusMsg = "Registering Store...", !.call = "registerUser"]
    /\ UNCHANGED <<storeScreen, historyScreen>>
    /\ UNCHANGED <<simVars, consoleVars, feedVars>>

\* registerUser is answered (the verification form comes up) or throws.
registerUserSettles(ok) ==
    /\ ~auth.loggedIn
    /\ auth.call = "registerUser"
    /\ auth' = IF ok
               THEN [auth EXCEPT !.call = "none", !.loading = FALSE, !.authMode = "VERIFY"]
               ELSE [auth EXCEPT !.call = "none", !.loading = FALSE,
                                 !.errorMsg = "Registration failed"]
    /\ UNCHANGED <<storeScreen, historyScreen>>
    /\ UNCHANGED <<simVars, consoleVars, feedVars>>

\* Submitting the verification form: the flag is raised, the error cleared
\* and the timer started; its closure holds the code typed so far.
handleVerifyOTP ==
    /\ ~auth.loggedIn
    /\ auth.authMode = "VERIFY" /\ ~auth.loading
    /\ auth' = [auth EXCEPT !.loading = TRUE, !.errorMsg = "", !.timer = auth.otp]
    /\ UNCHANGED <<storeScreen, historyScreen>>
    /\ UNCHANGED <<simVars, consoleVars, feedVars>>

\* The timer of handleVerifyOTP fires: an accepted code starts loginUser, any
\* other code lowers the flag and shows the error.
otpTimeout ==
    /\ ~auth.loggedIn
    /\ auth.timer # "none"
    /\ auth' = IF auth.timer \in AcceptedOtp
               THEN [auth EXCEPT !.timer = "none", !.call = "verifyLogin"]
               ELSE [auth EXCEPT !.timer = "none", !.loading = FALSE,
                                 !.errorMsg = "Invalid OTP."]
    /\ UNCHANGED <<storeScreen, historyScreen>>
    /\ UNCHANGED <<simVars, consoleVars, feedVars>>

handleStandardLogin ==
    /\ ~auth.loggedIn
    /\ auth.authMode = "LOGIN" /\ ~auth.loading
    /\ auth' = [auth EXCEPT !.errorMsg = "", !.loading = TRUE,
                            !.statusMsg = "Verifying Partner...", !.call = "standardLogin"]
    /\ UNCHANGED <<storeScreen, historyScreen>>
    /\ UNCHANGED <<simVars, consoleVars, feedVars>>

\* loginUser is answered (onLoginSuccess) or throws.  The catch of
\* handleStandardLogin shows the error and lowers the flag; the catch of
\* handleVerifyOTP only sets the error.
loginUserSettles(ok) ==
    /\ ~auth.loggedIn
    /\ auth.call \in {"verifyLogin", "standardLogin"}
    /\ auth' = IF ok THEN [auth EXCEPT !.call = "none", !.loggedIn = TRUE]
               ELSE IF auth.call = "standardLogin"
               THEN [auth EXCEPT !.call = "none", !.loading = FALSE,
                                 !.errorMsg = "Invalid credentials"]
               ELSE [auth EXCEPT !.call = "none", !.errorMsg = "Login failed"]
    /\ UNCHANGED <<storeScreen, historyScreen>>
    /\ UNCHANGED <<simVars, consoleVars, feedVars>>

\* The MyOrders screen alone: the customer opens and leaves the order
\* history while the simulator runs.
HistoryNext ==
    \/ \E v \in {"HOME", "ORDERS", "PROFILE"} : Navigate(v)
    \/ Tick

ShopNext ==
    \/ \E s \in Stores, products \in [Products -> Prices] : SelectStore(s, products)
    \/ InventoryChanged
    \/ \E p \in Products : addToCart(p)
    \/ \E i \in 1..Len(cart), d \in {-1, 1} : updateQuantity(i, d)
    \/ \E v \in {"HOME", "ORDERS", "PROFILE", "CART"} : Navigate(v)
    \/ \E d \in DeliveryType : handlePlaceOrder(d)
    \/ PaymentCancel
    \/ handlePaymentSuccess
    \/ Tick

\* A demo customer with an empty device who shops, checks out and follows
\* the order.
ShopInit ==
    SessionInit({"s1"}, [Products -> Prices], 0) /\ ConsoleIdle /\ FeedIdle /\ ViewIdle

SpecShop == ShopInit /\ [][ShopNext]_vars

\* A demo customer whose device already holds orders.
HistoryInit ==
    SessionInit({"s1"}, {[p \in Products |-> 30]}, MaxStored) /\ ConsoleIdle /\ FeedIdle /\ ViewIdle

SpecHistory == HistoryInit /\ [][HistoryNext]_vars

\* A demo customer with two stores nearby who fills the cart and checks out.
CartInit ==
    SessionInit(Stores, {[p \in Products |-> 30]}, 0) /\ ConsoleIdle /\ FeedIdle /\ ViewIdle

CartNext ==
    \/ \E s \in Stores : SelectStore(s, [p \in Products |-> 30])
    \/ \E p \in Products : addToCart(p)
    \/ \E i \in 1..Len(cart), d \in {-1, 1} : updateQuantity(i, d)
    \/ \E v \in {"HOME", "ORDERS", "PROFILE", "CART"} : Navigate(v)
    \/ \E d \in DeliveryType : handlePlaceOrder(d)
    \/ PaymentCancel
    \/ handlePaymentSuccess

SpecCart == CartInit /\ [][CartNext]_vars

(***************************************************************************)
(* MyOrders handed one order of any shape the Order type allows (from the  *)
(* backend or from storage) and rendered once.                             *)
(***************************************************************************)
AnyOrder ==
    {[id |-> <<"stored", 1>>, items |-> StoredItems, total |-> cartTotal(StoredItems),
      status |-> st, paymentStatus |-> ps, mode |-> m, deliveryType |-> dt] :
        st \in OrderStatus, ps \in PaymentStatus, m \in OrderMode, dt \in DeliveryType}

RenderInit ==
    /\ ViewIdle
    /\ stores = {}
    /\ inventoryChannels = {}
    /\ activeView = "ORDERS"
    /\ selectedStore = NoStore
    /\ storeProducts = [p \in Products |-> 30]
    /\ cart = <<>>
    /\ showPayment = FALSE
    /\ pendingOrderDetails = NoDetails
    /\ lsOrders = <<>>
    /\ myOrders \in {<<o>> : o \in AnyOrder}
    /\ rendered = <<>>
    /\ nextId = 1
    /\ age = [i \in OrderIds |-> 0]
    /\ ConsoleIdle
    /\ FeedIdle

RenderList ==
    /\ rendered = <<>>
    /\ rendered' = Render(myOrders)
    /\ UNCHANGED <<stores, inventoryChannels, activeView, selectedStore, storeProducts,
                   cart, showPayment,
                   pendingOrderDetails, lsOrders, myOrders, nextId, age>>
    /\ UNCHANGED <<consoleVars, feedVars>>
    /\ UNCHANGED viewVars

SpecRender == RenderInit /\ [][RenderList]_vars

(***************************************************************************)
(* Specifications of the store-owner side.                                 *)
(***************************************************************************)
\* The type column of a row; "" stands for a row without one.
RowTypes == {"", "DELIVERY", "PICKUP"}

\* The orders table before any store-owner action: n orders as they were
\* placed, of types f.
NewTable(n, f) ==
    [i \in 1..n |->
        [id |-> RowIds[i], items |-> StoredItems, status |-> "placed", type |-> f[i],
         total_amount |-> 120]]

\* No customer session is open.
SessionIdle == SessionInit({}, {[p \in Products |-> 30]}, 0) /\ FeedIdle

\* The store-owner console of the demo account.
OwnerInit == SessionIdle /\ ConsoleInit(DemoUser, {"a"}, <<>>, NullStore) /\ ViewIdle

OwnerNext ==
    \/ \E s \in Sessions : loadStore(s)
    \/ \E s \in Sessions, tab \in Tabs : setActiveTab(s, tab)
    \/ \E s \in Sessions, status \in OrderStatus : \E i \in 1..Len(orders[s]) :
          handleOrderStatus(s, orders[s][i].id, status, TRUE)
    \/ \E s \in Sessions : startEditingProfile(s)
    \/ \E s \in Sessions, v \in StoreNames : setProfileForm(s, "name", v)
    \/ \E s \in Sessions, v \in StoreAddresses : setProfileForm(s, "address", v)
    \/ \E s \in Sessions : cancelEditingProfile(s)
    \/ \E s \in Sessions : saveProfile(s, TRUE)

SpecOwner == OwnerInit /\ [][OwnerNext]_vars

\* One live store account signed in on two browsers, which open the orders
\* tab, over the backend table.
LiveInit ==
    /\ ViewIdle
    /\ SessionIdle
    /\ \E n \in 1..MaxTableOrders : \E f \in [1..n -> RowTypes] :
          ConsoleInit(LiveUser, Sessions, NewTable(n, f), NullStore)

LiveNext ==
    \/ \E s \in Sessions : loadStore(s)
    \/ \E s \in Sessions : setActiveTab(s, "ORDERS")
    \/ \E s \in Sessions, status \in OrderStatus, ok \in BOOLEAN :
          \E i \in 1..Len(orders[s]) :
             handleOrderStatus(s, orders[s][i].id, status, ok)
    \/ \E s \in Sessions, ok \in BOOLEAN : IncomingOrdersQuery(s, ok)
    \/ \E s \in Sessions : \E reply \in replies[s] : setOrders(s, reply)

SpecLive == LiveInit /\ [][LiveNext]_vars

\* One live store account on one browser: the orders tab and the profile form.
ProfileInit ==
    /\ ViewIdle
    /\ SessionIdle
    /\ \E n \in 1..MaxTableOrders : \E f \in [1..n -> RowTypes] :
          ConsoleInit(LiveUser, {"a"}, NewTable(n, f), NullStore)

ProfileNext ==
    \/ \E s \in Sessions : loadStore(s)
    \/ \E s \in Sessions, tab \in {"ORDERS", "PROFILE"} : setActiveTab(s, tab)
    \/ \E s \in Sessions, status \in OrderStatus, ok \in BOOLEAN :
          \E i \in 1..Len(orders[s]) :
             handleOrderStatus(s, orders[s][i].id, status, ok)
    \/ \E s \in Sessions : IncomingOrdersQuery(s, TRUE)
    \/ \E s \in Sessions : \E reply \in replies[s] : setOrders(s, reply)
    \/ \E s \in Sessions : startEditingProfile(s)
    \/ \E s \in Sessions, v \in StoreNames : setProfileForm(s, "name", v)
    \/ \E s \in Sessions, v \in StoreAddresses : setProfileForm(s, "address", v)
    \/ \E s \in Sessions : cancelEditingProfile(s)
    \/ \E s \in Sessions, ok \in BOOLEAN : saveProfile(s, ok)

SpecProfile == ProfileInit /\ [][ProfileNext]_vars

\* The rows the inventory table of the live store may hold at the start:
\* at most one per catalogue product.
InventoryRows ==
    [product_id : {"1", "2"}, price : {30, 60}, in_stock : BOOLEAN,
     stock : 0..MaxStock, brand_data : {{}}]

\* The inventory tab of one console of the demo account.
InventoryInitDemo ==
    /\ ViewIdle
    /\ SessionIdle
    /\ ConsoleInit(DemoUser, {"a"}, <<>>, NullStore)

\* A live console over the rows the store's inventory table holds.
InventoryInitLive ==
    /\ ViewIdle
    /\ SessionIdle
    /\ \E t \in SUBSET InventoryRows :
          /\ Cardinality(t) <= 2
          /\ \A r1, r2 \in t : r1.product_id = r2.product_id => r1 = r2
          /\ ConsoleInitOver(LiveUser, {"a"}, <<>>, NullStore, t)

InventoryInit == InventoryInitDemo \/ InventoryInitLive

InventoryNext ==
    \/ \E s \in Sessions : loadStore(s)
    \/ \E s \in Sessions : setActiveTab(s, "INVENTORY")
    \/ \E s \in Sessions : fetchInventory(s)
    \/ \E s \in Sessions, id \in {"1", "2"}, ok \in BOOLEAN : toggleInStock(s, id, ok)
    \/ \E s \in Sessions, id \in {"1", "2"}, ok \in BOOLEAN : handleDeleteItem(s, id, ok)

SpecInventory == InventoryInit /\ [][InventoryNext]_vars

\* The brand cards of the demo console's listed item.
BrandsInit == InventoryInitDemo

BrandsNext ==
    \/ \E s \in Sessions : loadStore(s)
    \/ \E s \in Sessions : setActiveTab(s, "INVENTORY")
    \/ \E s \in Sessions, id \in {"1", "2"} : toggleInStock(s, id, TRUE)
    \/ \E s \in Sessions, id \in {"1", "2"}, brandName \in Brands, field \in BrandFields :
          \E value \in BrandFieldValues(field) :
             handleBrandInventoryUpdate(s, id, brandName, field, value, TRUE)

SpecBrands == BrandsInit /\ [][BrandsNext]_vars

\* The same two consoles over a table of pickup orders, the mode whose
\* sequence the status buttons spell out.
PickupInit ==
    /\ ViewIdle
    /\ SessionIdle
    /\ \E n \in 1..MaxTableOrders :
          ConsoleInit(LiveUser, Sessions, NewTable(n, [i \in 1..n |-> "PICKUP"]), NullStore)

SpecPickup == PickupInit /\ [][LiveNext]_vars

\* A registered customer who opens and leaves the order history while the
\* store owner works through the orders on one console.
FeedInit ==
    /\ ViewIdle
    /\ SessionInit({}, {[p \in Products |-> 30]}, 0)
    /\ customerId = "cust-1"
    /\ subscription = "none"
    /\ events = <<>>
    /\ userReplies = {}
    /\ \E n \in 1..MaxFeedOrders :
          ConsoleInit(LiveUser, {"a"},
                      NewTable(n, [i \in 1..n |-> IF i % 2 = 1 THEN "DELIVERY" ELSE "PICKUP"]),
                      NullStore)

FeedNext ==
    \/ \E v \in {"HOME", "ORDERS"} : Navigate(v)
    \/ \E reply \in userReplies : setUserOrders(reply)
    \/ userOrderEvent
    \/ \E s \in Sessions : loadStore(s)
    \/ \E s \in Sessions : setActiveTab(s, "ORDERS")
    \/ \E s \in Sessions, status \in OrderStatus : \E i \in 1..Len(orders[s]) :
          handleOrderStatus(s, orders[s][i].id, status, TRUE)
    \/ \E s \in Sessions : IncomingOrdersQuery(s, TRUE)
    \/ \E s \in Sessions : \E reply \in replies[s] : setOrders(s, reply)

SpecFeed == FeedInit /\ [][FeedNext]_vars

\* A registered customer shops at the store whose live console is open:
\* cart, payment step and order history on one side, the console and its
\* order channel on the other.
CheckoutInit ==
    /\ ViewIdle
    /\ SessionInit({"s1"}, {[p \in Products |-> 60]}, 0)
    /\ customerId = "cust-1"
    /\ subscription = "none"
    /\ events = <<>>
    /\ userReplies = {}
    /\ \E n \in 0..MaxTableOrders :
          ConsoleInit(LiveUser, {"a"}, NewTable(n, [i \in 1..n |-> "DELIVERY"]), NullStore)

CheckoutNext ==
    \/ SelectStore("s1", [p \in Products |-> 60])
    \/ \E p \in Products : addToCart(p)
    \/ \E i \in 1..Len(cart), d \in {-1, 1} : updateQuantity(i, d)
    \/ \E v \in {"HOME", "ORDERS", "CART"} : Navigate(v)
    \/ handlePlaceOrder("INSTANT")
    \/ PaymentCancel
    \/ handlePaymentSuccess
    \/ \E reply \in userReplies : setUserOrders(reply)
    \/ \E s \in Sessions : loadStore(s)
    \/ \E s \in Sessions : IncomingOrdersQuery(s, TRUE)
    \/ \E s \in Sessions : \E reply \in replies[s] : setOrders(s, reply)

SpecCheckout == CheckoutInit /\ [][CheckoutNext]_vars

\* The console's mount effect runs, a due fetch is sent and answered, and a
\* resolved promise hands its list to setOrders.
CheckoutFairness ==
    /\ WF_vars(\E s \in Sessions : loadStore(s))
    /\ WF_vars(\E s \in Sessions : IncomingOrdersQuery(s, TRUE))
    /\ WF_vars(\E s \in Sessions : \E reply \in replies[s] : setOrders(s, reply))

SpecCheckoutFair == SpecCheckout /\ CheckoutFairness

\* The store console and the order history as they are mounted for a user
\* without id, the demo account or a registered user.
LoadingInit ==
    /\ SessionIdle
    /\ ConsoleIdle
    /\ \E u \in ScreenUsers : storeScreen = StoreScreenInit(u)
    /\ \E u \in ScreenUsers : historyScreen = HistoryScreenInit(u)
    /\ auth = AuthInit

LoadingNext ==
    \/ \E outcome \in {"pending", "never"} : loadStoreEffect(outcome)
    \/ \E ok \in BOOLEAN : getMyStoreSettles(ok)
    \/ \E outcome \in {"pending", "never"} : fetchOrdersEffect(outcome)
    \/ \E ok \in BOOLEAN : getUserOrdersSettles(ok)
    \/ unmountHistory

SpecLoading == LoadingInit /\ [][LoadingNext]_vars

\* The sign-in component of the partner app, for the demo account or a
\* registered partner, and the store console that is mounted for the account
\* once onLoginSuccess has been called.
SignInInit ==
    /\ SessionIdle
    /\ ConsoleIdle
    /\ \E u \in ScreenUsers \ {NoUser} : storeScreen = StoreScreenInit(u)
    /\ historyScreen = HistoryScreenInit(NoUser)
    /\ auth = AuthInit

SignInNext ==
    \/ \E m \in {"LOGIN", "REGISTER"} : setAuthMode(m)
    \/ \E v \in OtpValues : setOtp(v)
    \/ handleRegister
    \/ \E ok \in BOOLEAN : registerUserSettles(ok)
    \/ handleVerifyOTP
    \/ otpTimeout
    \/ handleStandardLogin
    \/ \E ok \in BOOLEAN : loginUserSettles(ok)
    \/ auth.loggedIn /\ \E outcome \in {"pending", "never"} : loadStoreEffect(outcome)
    \/ auth.loggedIn /\ \E ok \in BOOLEAN : getMyStoreSettles(ok)

SpecSignIn == SignInInit /\ [][SignInNext]_vars

\* The status column written with every application status in turn and read
\* back by a live console.
EncodingInit ==
    /\ ViewIdle
    /\ SessionIdle
    /\ \E n \in 1..MaxTableOrders :
          ConsoleInit(LiveUser, {"a"}, NewTable(n, [i \in 1..n |-> "DELIVERY"]), NullStore)

EncodingNext ==
    \/ \E s \in Sessions : loadStore(s)
    \/ \E j \in 1..Len(ordersTable), status \in OrderStatus :
          updateStatusCall(ordersTable[j].id, status)
    \/ \E s \in Sessions : IncomingOrdersQuery(s, TRUE)
    \/ \E s \in Sessions : \E reply \in replies[s] : setOrders(s, reply)

SpecEncoding == EncodingInit /\ [][EncodingNext]_vars

\* The three places where an order held in local state changes status, one
\* per behaviour: the demo customer's simulator, the demo store console and
\* the registered customer's order history.
LocalInit == HistoryInit \/ OwnerInit \/ FeedInit

LocalNext ==
    \/ customerId = DemoUser /\ consoles = {} /\ HistoryNext
    \/ userId = DemoUser /\ OwnerNext
    \/ customerId # DemoUser /\ FeedNext

SpecLocal == LocalInit /\ [][LocalNext]_vars

(***************************************************************************)
(* Properties of the customer side.                                        *)
(***************************************************************************)
IsCheckoutOrder(o) == o.id[1] = "ord"

TerminalStatus == {"Delivered", "Picked Up", "Cancelled", "Rejected"}

SimulatorSkips(o) ==
    \/ o.status \in {"Cancelled", "Delivered", "Picked Up"}
    \/ o.deliveryType = "SCHEDULED" /\ o.paymentStatus = "PENDING"

CustomerSteps(mode) ==
    IF mode = "DELIVERY"
    THEN <<"Pending", "Preparing", "On the way", "Delivered">>
    ELSE <<"Pending", "Preparing", "Ready", "Picked Up">>

\* The position (from 0) of a status in a step list, -1 standing for "absent".
Position(steps, status) ==
    IF \E i \in 1..Len(steps) : steps[i] = status
    THEN (CHOOSE i \in 1..Len(steps) : steps[i] = status) - 1
    ELSE -1

RECURSIVE LineItemSum(_)
LineItemSum(items) ==
    IF items = <<>> THEN 0
    ELSE Head(items).price * Head(items).quantity + LineItemSum(Tail(items))

\* C4: an order created by checkout (placed, DELIVERY, PAID) is Preparing
\* after one simulator tick, On the way after two and Delivered after
\* three; it is not Delivered after fewer than three ticks.
C4_CheckoutOrderDeliveredAfterThreeTicks ==
    \A i \in 1..Len(lsOrders) :
        LET o == lsOrders[i]
        IN (IsCheckoutOrder(o) /\ o.mode = "DELIVERY" /\ o.paymentStatus = "PAID")
             => /\ age[o.id] = 0 => o.status = "Pending"
                /\ age[o.id] = 1 => o.status = "Preparing"
                /\ age[o.id] = 2 => o.status = "On the way"
                /\ age[o.id] >= 3 => o.status = "Delivered"

C4_Witness ==
    \E i \in 1..Len(lsOrders) :
        /\ IsCheckoutOrder(lsOrders[i])
        /\ age[lsOrders[i].id] = 3
        /\ lsOrders[i].status = "Delivered"

\* C5: a simulator tick moves every order it does not skip to the next step
\* of its mode's list, leaves the status of every skipped order (Cancelled,
\* Delivered, Picked Up, scheduled and unpaid) as it was, and no step of the
\* session changes the status of a terminal order.
C5_TickAdvancesOneStep ==
    [][/\ Tick =>
            /\ Len(myOrders') = Len(myOrders)
            /\ \A i \in 1..Len(myOrders) :
                 LET o == myOrders[i]
                     n == myOrders'[i]
                 IN IF SimulatorSkips(o)
                    THEN n.status = o.status
                    ELSE /\ Position(CustomerSteps(o.mode), o.status) >= 0
                         /\ Position(CustomerSteps(o.mode), n.status)
                              = Position(CustomerSteps(o.mode), o.status) + 1
       /\ \A i \in 1..Len(lsOrders) :
            lsOrders[i].status \in TerminalStatus
              => /\ i <= Len(lsOrders')
                 /\ lsOrders'[i].status = lsOrders[i].status]_simVars

C5_Witness ==
    /\ Len(myOrders) = 2
    /\ myOrders[1].mode = "PICKUP" /\ myOrders[1].status = "Ready"
    /\ myOrders[1].paymentStatus = "PAID" /\ age[myOrders[1].id] = 1
    /\ myOrders[2].status = "Cancelled" /\ age[myOrders[2].id] = 1

\* C6: no step changes the status of an order that is SCHEDULED with payment
\* PENDING, however many simulator ticks are applied to it.
C6_ScheduledUnpaidNeverAdvances ==
    [][\A i \in 1..Len(lsOrders) :
         (lsOrders[i].deliveryType = "SCHEDULED" /\ lsOrders[i].paymentStatus = "PENDING")
           => /\ i <= Len(lsOrders')
              /\ lsOrders'[i].id = lsOrders[i].id
              /\ lsOrders'[i].status = lsOrders[i].status]_simVars

C6_Witness ==
    \E i \in 1..Len(myOrders) :
        /\ myOrders[i].deliveryType = "SCHEDULED"
        /\ myOrders[i].paymentStatus = "PENDING"
        /\ myOrders[i].status = "Pending"
        /\ age[myOrders[i].id] >= 3

C8_OutOfListIndexZero ==
    \A k \in 1..Len(rendered) :
        LET o == myOrders[k]
            r == rendered[k].info
        IN /\ r.currentIndex >= 0
           /\ Position(CustomerSteps(o.mode), o.status) = -1
                => (r.currentIndex = 0 /\ r.progressNum = 0)

\* C9: for a status in the step list of the order's mode the indicator's
\* index is the status's position and its progress is index / (length - 1):
\* 0 at the first step, 1 at the last, and 1/3 for a DELIVERY order that is
\* Preparing.
C9_ProgressFraction ==
    \A k \in 1..Len(rendered) :
        LET o == myOrders[k]
            r == rendered[k].info
            steps == CustomerSteps(o.mode)
            pos == Position(steps, o.status)
        IN pos >= 0
             => /\ r.currentIndex = pos
                /\ r.progressDen = Len(steps) - 1
                /\ r.progressDen = 3
                /\ r.progressNum * (Len(steps) - 1) = pos * 100 * r.progressDen
                /\ pos = 0 => r.progressNum = 0
                /\ pos = Len(steps) - 1 => r.progressNum = 100 * r.progressDen
                /\ (o.mode = "DELIVERY" /\ o.status = "Preparing")
                     => (r.currentIndex = 1 /\ r.progressNum * 3 = 100 * r.progressDen)

C9_Witness ==
    /\ Len(rendered) = 1
    /\ myOrders[1].mode = "DELIVERY"
    /\ myOrders[1].status = "Preparing"
    /\ rendered[1].info.currentIndex = 1

Progression(mode) ==
    IF mode = "DELIVERY"
    THEN <<"Placed", "Accepted", "Preparing", "On the way", "Delivered">>
    ELSE <<"Placed", "Accepted", "Preparing", "Ready", "Picked Up">>

\* From `from` the status `to` is a later step of the mode's sequence.
ForwardStep(mode, from, to) ==
    /\ Position(Progression(mode), from) >= 0
    /\ Position(Progression(mode), to) > Position(Progression(mode), from)

\* From `from` the status `to` is the next step of the mode's sequence.
NextStep(mode, from, to) ==
    /\ Position(Progression(mode), from) >= 0
    /\ Position(Progression(mode), to) = Position(Progression(mode), from) + 1

\* An entry into Rejected or Cancelled from a state that allows it.
TerminalEntry(from, to) ==
    \/ to = "Rejected" /\ from \in {"Placed", "Accepted"}
    \/ to = "Cancelled" /\ from \notin TerminalStatus

\* C1: in every view that holds an order its status never moves backward
\* along the sequence of the order's mode: each change of the status a
\* store-owner console shows for an order is a forward step of that
\* sequence or an entry into Cancelled or Rejected.
C1_StatusNeverMovesBackward ==
    [][\A s \in Sessions : \A i \in 1..Len(orders[s]) : \A j \in 1..Len(orders'[s]) :
          (/\ orders'[s][j].id = orders[s][i].id
           /\ orders'[s][j].status # orders[s][i].status)
            => \/ orders'[s][j].status \in {"Cancelled", "Rejected"}
               \/ ForwardStep(orders[s][i].mode, orders[s][i].status,
                              orders'[s][j].status)]_vars

\* C2: every status action the console offers for an order moves it to the
\* next status of its mode's sequence (DELIVERY: Placed, Accepted, Preparing,
\* On the way, Delivered; PICKUP: Placed, Accepted, Preparing, Ready, Picked
\* Up), or takes it straight to Rejected or Cancelled from an eligible state.
C2_OwnerActionsFollowModeSequence ==
    [][\A s \in Sessions, status \in OrderStatus : \A i \in 1..Len(orders[s]) :
          handleOrderStatus(s, orders[s][i].id, status, TRUE)
            => \/ NextStep(orders[s][i].mode, orders[s][i].status, status)
               \/ TerminalEntry(orders[s][i].status, status)]_vars

\* C3: whatever the consoles display, a row of the orders table enters
\* Rejected only from Placed or Accepted, and Cancelled only from a status
\* that is not terminal.
C3_RejectedOnlyFromPlacedOrAccepted ==
    [][\A i \in 1..Len(ordersTable) :
          LET from == mapDbStatusToAppStatus(ordersTable[i].status)
              to == mapDbStatusToAppStatus(ordersTable'[i].status)
          IN (to \in {"Rejected", "Cancelled"} /\ to # from)
               => TerminalEntry(from, to)]_vars

(***************************************************************************)
(* Properties of status changes in local state, checkout and channels.     *)
(***************************************************************************)
\* Order b is order a with at most the status replaced.
SameExceptStatus(a, b) == [b EXCEPT !.status = a.status] = a

\* List after is list before with at most the status of the orders whose id
\* is in ids replaced.
OnlyStatusOf(ids, before, after) ==
    /\ Len(after) = Len(before)
    /\ \A i \in 1..Len(before) :
          IF before[i].id \in ids
          THEN SameExceptStatus(before[i], after[i])
          ELSE after[i] = before[i]

\* C11: a simulator tick, a customer live status event and a demo-mode owner
\* status action change nothing but the status of the order they act on:
\* its items (prices, quantities), total, mode and paymentStatus and every
\* other order of the list stay as they were.
C11_StatusChangeTouchesOnlyStatus ==
    [][/\ Tick =>
            /\ OnlyStatusOf({myOrders[i].id : i \in {j \in 1..Len(myOrders) :
                                                       ~SimulatorSkips(myOrders[j])}},
                            myOrders, myOrders')
            /\ lsOrders' = myOrders'
       /\ userOrderEvent => OnlyStatusOf({Head(events).id}, myOrders, myOrders')
       /\ \A s \in Sessions, status \in OrderStatus : \A i \in 1..Len(orders[s]) :
             (userId = DemoUser /\ handleOrderStatus(s, orders[s][i].id, status, TRUE))
               => /\ OnlyStatusOf({orders[s][i].id}, orders[s], orders'[s])
                  /\ \A c \in Sessions \ {s} : orders'[c] = orders[c]]_vars

\* A live status event has acted on the first of two listed orders (Pending
\* is what the callback shows for an accepted row) and the second is still
\* as fetched.
C11_Witness ==
    /\ customerId # DemoUser
    /\ Len(myOrders) = 2
    /\ myOrders[1].status = "Pending"
    /\ myOrders[1].items = StoredItems /\ myOrders[1].total = 120
    /\ myOrders[2] = getUserOrders(ordersTable)[2]
    /\ myOrders[2].status = "Placed"
    /\ events = <<>>

\* C12: every order that checkout creates has a non-empty item list whose
\* items all carry one storeId, and its storeName and storeLocation are
\* those of that store.
C12_CheckoutOrderOfOneStore ==
    \A k \in 1..Len(lsOrders) :
        LET o == lsOrders[k]
        IN IsCheckoutOrder(o) =>
              /\ o.items # <<>>
              /\ \A i \in 1..Len(o.items) :
                    /\ o.items[i].storeId = o.items[1].storeId
                    /\ o.storeName = StoreName(o.items[i].storeId)
                    /\ o.storeLocation = o.items[i].storeId

\* C13: an order is created only by the step that ends an open payment step
\* with success, and it is created Pending (the placed status) and PAID with
\* the cart as its items; a step that closes the payment step without
\* creating an order leaves the cart and the order details as they were, so
\* that the customer can try again.
C13_OrderOnlyOnPaymentSuccess ==
    [][/\ Len(lsOrders') >= Len(lsOrders)
       /\ Len(lsOrders') > Len(lsOrders) =>
             /\ showPayment /\ ~showPayment'
             /\ pendingOrderDetails # NoDetails
             /\ cart # <<>> /\ cart' = <<>>
             /\ Len(lsOrders') = Len(lsOrders) + 1
             /\ SubSeq(lsOrders', 1, Len(lsOrders)) = lsOrders
             /\ lsOrders'[Len(lsOrders')].status = "Pending"
             /\ lsOrders'[Len(lsOrders')].paymentStatus = "PAID"
             /\ lsOrders'[Len(lsOrders')].items = cart
       /\ (showPayment /\ ~showPayment' /\ Len(lsOrders') = Len(lsOrders)) =>
             /\ cart' = cart
             /\ pendingOrderDetails' = pendingOrderDetails
             /\ lsOrders' = lsOrders]_vars

\* The payment step was cancelled with a filled cart: no order exists, the
\* cart and the order details are still there.
C13_Witness ==
    /\ ~showPayment
    /\ pendingOrderDetails # NoDetails
    /\ cart # <<>>
    /\ lsOrders = <<>>
    /\ activeView = "CART"

\* C14: once a view has unsubscribed from its change channel, no callback of
\* that channel runs any more and no state update that the channel caused is
\* applied to the view.  For the customer's order history: no announced
\* change waits for a closed channel, and the list changes on an announced
\* change only while the channel is open.  For the store console: a result
\* handed to setOrders was not requested by the callback of a channel that
\* the cleanup of the data-sync effect has removed.
C14_NoUpdateAfterUnsubscribe ==
    [][/\ subscription = "none" => events = <<>>
       /\ userOrderEvent => subscription = "active"
       /\ \A s \in Sessions : \A reply \in replies[s] \ replies'[s] :
             reply \notin callbackFetches[s].staleInFlight]_vars

\* C15: every subscription is removed when the identity it is scoped to
\* changes, so that at most one is open per view and identity: the only
\* store whose inventory channel the customer app holds open is the
\* selected store (after a switch from A to B none remains for A).
C15_OnlyTheSelectedStoreIsWatched ==
    inventoryChannels \subseteq {selectedStore}

\* The ids of the orders in a list (of a view or of the backend table).
IdsOf(list) == {list[i].id : i \in 1..Len(list)}

\* C16: in live mode a change event makes each role's view fetch the full
\* current order set and replace its list wholesale.  When the customer's
\* callback has run, a fetch of the full set is under way or the view lists
\* every order the table holds; a change of the table leaves a fetch due at
\* every subscribed store console; and a result handed to setOrders becomes
\* the console's list as it is.
C16_ChangeEventRefetchesFullSet ==
    [][/\ userOrderEvent =>
             \/ userReplies' # {}
             \/ IdsOf(myOrders') = IdsOf(ordersTable')
       /\ ordersTable' # ordersTable => \A s \in Subscribed : refetch'[s]
       /\ \A s \in Sessions : \A reply \in replies[s] \ replies'[s] :
             orders'[s] = reply]_vars

\* C17: a session of a demonstration account asks nothing of the backend: a
\* demo store console has issued no read, write or subscription, and the demo
\* customer's order history holds no channel and awaits no backend reply.
C17_DemoSessionStaysLocal ==
    /\ (userId = DemoUser /\ consoles # {}) => backendCalls = {}
    /\ customerId = DemoUser => (subscription = "none" /\ userReplies = {})

\* C18: when the status write of a live console fails, the console raises
\* the alert and every order keeps the status it showed before the click;
\* the backend rows are as they were.
C18_FailedStatusWriteShowsNoChange ==
    [][\A s \in Sessions : \A i \in 1..Len(orders[s]) : \A status \in OrderStatus :
          (userId # DemoUser /\ handleOrderStatus(s, orders[s][i].id, status, FALSE)) =>
             /\ alerted'[s]
             /\ orders' = orders
             /\ ordersTable' = ordersTable]_vars

\* A live console shows the alert of a failed write while its order and the
\* backend row are still in the placed status.
C18_Witness ==
    /\ userId = LiveUser
    /\ \E s \in consoles :
          /\ alerted[s]
          /\ orders[s] # <<>>
          /\ \A i \in 1..Len(orders[s]) : orders[s][i].status = "Placed"
    /\ \A j \in 1..Len(ordersTable) : ordersTable[j].status = "placed"

\* C19: when the backend refuses the profile update of a live console, the
\* save ends in the alert and the store record the console holds is the one
\* it held before Save Changes was pressed.
C19_FailedProfileSaveKeepsStore ==
    [][\A s \in Sessions :
          (userId # DemoUser /\ saveProfile(s, FALSE)) =>
             /\ alerted'[s]
             /\ myStore'[s] = myStore[s]]_vars

\* The list a click on the switch of the item at position i leaves.
Toggled(inv, i) ==
    updatedInventory(inv, inv[i], inv[i].storePrice, ~inv[i].inStock, inv[i].stock,
                     inv[i].mrp, Undefined)

C21_AggregateStockIsSumOfOfferedVariants ==
    [][\A s \in Sessions : \A i \in 1..Len(inventory[s]) :
          /\ \A brandName \in Brands, field \in BrandFields :
                \A value \in BrandFieldValues(field) :
                   handleBrandInventoryUpdate(s, inventory[s][i].id, brandName,
                                              field, value, TRUE) =>
                      inventory'[s][i].stock
                         = SumOfferedStock(inventory'[s][i].brandDetails)
          /\ (inventory[s][i].inStock /\ toggleInStock(s, inventory[s][i].id, TRUE)) =>
                inventory'[s][i] = [inventory[s][i] EXCEPT !.inStock = FALSE]]_vars

\* C21 (amended): after every update of a variant's stock or switch the
\* item's stock is the sum of the stock of the variants that are switched on;
\* an update of a variant's price or reference price leaves the item's stock
\* as it was; and a click that switches the item itself off changes only the
\* item's offered flag and leaves every variant's data as it was.
C21_StockUpdateRecomputesAggregate ==
    [][\A s \in Sessions : \A i \in 1..Len(inventory[s]) :
          /\ \A brandName \in Brands, field \in BrandFields :
                \A value \in BrandFieldValues(field) :
                   handleBrandInventoryUpdate(s, inventory[s][i].id, brandName,
                                              field, value, TRUE) =>
                      IF field \in {"stock", "inStock"}
                      THEN inventory'[s][i].stock
                              = SumOfferedStock(inventory'[s][i].brandDetails)
                      ELSE inventory'[s][i].stock = inventory[s][i].stock
          /\ (inventory[s][i].inStock /\ toggleInStock(s, inventory[s][i].id, TRUE)) =>
                inventory'[s][i] = [inventory[s][i] EXCEPT !.inStock = FALSE]]_vars

\* The listed item holds one variant that is switched on and one that is
\* switched off, both with stock, and its own stock counts only the first.
C21_Witness ==
    \E s \in consoles :
       /\ Len(inventory[s]) > 0
       /\ \E on, off \in inventory[s][1].brandDetails :
             /\ on.inStock /\ on.stock = MaxStock
             /\ ~off.inStock /\ off.stock = MaxStock
       /\ inventory[s][1].stock = MaxStock

\* C22: when two consoles of the live store send status updates for the same
\* order, neither write is refused or compared with the status the row holds:
\* every write the backend applies, from whichever console and whatever the
\* row's status at that moment, leaves the row with the status of that write,
\* so the stored status is that of the write applied last.
C22_LastStatusWriteWins ==
    [][\A s \in Sessions : \A i \in 1..Len(orders[s]) : \A status \in OrderStatus :
          (userId # DemoUser /\ handleOrderStatus(s, orders[s][i].id, status, TRUE)) =>
             \A j \in 1..Len(ordersTable) :
                ordersTable'[j].status =
                   IF ordersTable[j].id = orders[s][i].id THEN dbStatus(status)
                   ELSE ordersTable[j].status]_vars

\* Two consoles wrote to the same order: the row holds the rejection sent
\* from the console that still shows the order as placed, over the acceptance
\* the other console shows.
C22_Witness ==
    /\ userId = LiveUser
    /\ \E s, t \in consoles : \E j \in 1..Len(ordersTable) :
          /\ s # t
          /\ ordersTable[j].status = "rejected"
          /\ \E i \in 1..Len(orders[s]) :
                orders[s][i].id = ordersTable[j].id /\ orders[s][i].status = "Accepted"
          /\ \E i \in 1..Len(orders[t]) :
                orders[t][i].id = ordersTable[j].id /\ orders[t][i].status = "Placed"

C24_LoadingAlwaysEnds ==
    /\ (storeScreen.ran /\ storeScreen.loading) => storeScreen.call = "pending"
    /\ (historyScreen.ran /\ historyScreen.loading) => historyScreen.call = "pending"

\* C30: after the verification form has been submitted the sign-in
\* component either reports the login or comes back out of the loading state
\* with the error showing, also when the code is accepted and the login call
\* then fails: every step that ends a submitted verification (the timer
\* firing on a code that is not accepted, the login call being answered or
\* failing) leaves the component logged in, or not loading with an error
\* message set.
C30_VerificationEndsInLoginOrError ==
    [][((otpTimeout /\ auth.timer \notin AcceptedOtp)
          \/ (auth.call = "verifyLogin" /\ \E ok \in BOOLEAN : loginUserSettles(ok))) =>
             \/ auth'.loggedIn
             \/ ~auth'.loading /\ auth'.errorMsg # ""]_vars

\* Every announced change has been handed to its callback and no fetch of
\* any view is due or under way.
Quiescent ==
    /\ events = <<>>
    /\ userReplies = {}
    /\ \A s \in Sessions : ~refetch[s] /\ replies[s] = {}

\* C25: in live mode, once every change event has been delivered and every
\* fetch (the initial one, the one an event starts, the one after an update)
\* has been answered, an order shown by the customer's order history or by a
\* store console carries the status the view derives from the status the
\* backend row holds now (for the order history: as its fetch or as its
\* callback derives it): no answer of an earlier fetch stands over a later
\* one and no event that came before the initial answer is lost.
C25_ViewsAgreeWithBackendWhenQuiet ==
    (userId # DemoUser /\ Quiescent) =>
       /\ (customerId # DemoUser /\ subscription = "active") =>
             \A i \in 1..Len(myOrders) : \A j \in 1..Len(ordersTable) :
                myOrders[i].id = ordersTable[j].id =>
                   myOrders[i].status \in {mapDbStatusToAppStatus(ordersTable[j].status),
                                           callbackStatus(ordersTable[j].status)}
       /\ \A s \in Subscribed :
             \A i \in 1..Len(orders[s]) : \A j \in 1..Len(ordersTable) :
                orders[s][i].id = ordersTable[j].id =>
                   orders[s][i].status = mapDbStatusToAppStatus(ordersTable[j].status)

\* C26: both roles derive the same status from one order row: whenever the
\* customer's channel callback handles the change of a row, the status it
\* gives the order is the one the store console's list gives the row; an
\* order the owner rejected is shown to the customer as ended, not as pending.
C26_BothRolesDeriveTheSameStatus ==
    [][userOrderEvent =>
          \A i \in 1..Len(myOrders) :
             myOrders[i].id = Head(events).id =>
                /\ myOrders'[i].status = mapDbStatusToAppStatus(Head(events).status)
                /\ Head(events).status = "rejected" =>
                      myOrders'[i].status \in TerminalStatus]_vars

\* C27: the status encoding of the store service round-trips: whichever of
\* the ten application statuses updateStoreOrderStatus is called with, the
\* row it wrote reads back through getIncomingOrders (mapDbStatusToAppStatus)
\* as that status.
C27_StatusEncodingRoundTrips ==
    [][\A j \in 1..Len(ordersTable) : \A status \in OrderStatus :
          updateStatusCall(ordersTable[j].id, status) =>
             /\ mapDbStatusToAppStatus(ordersTable'[j].status) = status
             /\ getIncomingOrders(ordersTable')[j].status = status]_vars

\* The row was written with Pending, which has no case of its own in either
\* direction, and the console that fetched it shows it as Pending.
C27_Witness ==
    \E s \in consoles : \E i \in 1..Len(orders[s]) : \E j \in 1..Len(ordersTable) :
       /\ orders[s][i].id = ordersTable[j].id
       /\ ordersTable[j].status = "pending"
       /\ orders[s][i].status = "Pending"
       /\ "updateStoreOrderStatus" \in backendCalls

\* C28: when the backend refuses the delete of an inventory item of a live
\* console, the item is as it was before the delete was pressed: listed
\* (isActive), with the offered flag and the stock count it had.
C28_FailedDeleteRestoresItem ==
    [][\A s \in Sessions : \A i \in 1..Len(inventory[s]) :
          (userId # DemoUser /\ handleDeleteItem(s, inventory[s][i].id, FALSE)) =>
             /\ inventory'[s][i].isActive = inventory[s][i].isActive
             /\ inventory'[s][i].inStock = inventory[s][i].inStock
             /\ inventory'[s][i].stock = inventory[s][i].stock]_vars

\* C29: in the demo console, saving the store profile leaves the order list
\* as it was, so an order whose status was advanced is still shown with that
\* status.
C29_DemoProfileSaveKeepsOrders ==
    [][\A s \in Sessions : \A ok \in BOOLEAN :
          (userId = DemoUser /\ saveProfile(s, ok)) => orders'[s] = orders[s]]_vars

====
